---- MODULE Spec2Model ----
(***************************************************************************)
(* A model of the UV workspace support of release-please:                  *)
(*   - the uv-workspace plugin (package discovery, dependency graph,       *)
(*     cascade of version bumps over the graph),                           *)
(*   - the uv-workspace strategy (buildUpdates, in its two revisions),     *)
(*   - the pyproject.toml / uv.lock updaters.                              *)
(* Strings are TLA+ strings; Len, SubSeq and \o act on them character by   *)
(* character, so specifier parsing is modelled on the text itself.         *)
(***************************************************************************)
EXTENDS Integers, Sequences, FiniteSets, TLC

VARIABLES plugin, strategy, updater, merger, lock, notes

vars == <<plugin, strategy, updater, merger, lock, notes>>

(***************************************************************************)
(* Bounds of the model.                                                    *)
(***************************************************************************)
\* number of member manifests the workspace globs can discover
MaxMembers == 2

(***************************************************************************)
(* Text helpers.                                                           *)
(***************************************************************************)
Char(s, i) == SubSeq(s, i, i)

CharsOf(s) == {Char(s, i) : i \in 1..Len(s)}

\* the character class [a-zA-Z0-9_-] of the name patterns
NameChars ==
    CharsOf("abcdefghijklmnopqrstuvwxyzABCDEFGHIJKLMNOPQRSTUVWXYZ0123456789_-")

\* length of the longest run of characters of class cls that starts at i
LeadingRun(s, cls, i) ==
    (CHOOSE n \in (i - 1)..Len(s) :
        /\ \A k \in i..n : Char(s, k) \in cls
        /\ (n = Len(s) \/ Char(s, n + 1) \notin cls)) - (i - 1)

\* String.prototype.includes
Includes(s, sub) ==
    \E i \in 1..(Len(s) - Len(sub) + 1) : SubSeq(s, i, i + Len(sub) - 1) = sub

\* String.prototype.trim, for blanks
Trim(s) ==
    LET blanks == LeadingRun(s, {" "}, 1)
        last == CHOOSE n \in blanks..Len(s) :
                    /\ \A k \in (n + 1)..Len(s) : Char(s, k) = " "
                    /\ (n = blanks \/ Char(s, n) # " ")
    IN  SubSeq(s, blanks + 1, last)

\* index of the first occurrence of sub in s, 0 when there is none
IndexOf(s, sub) ==
    IF Includes(s, sub)
    THEN CHOOSE i \in 1..(Len(s) - Len(sub) + 1) :
            /\ SubSeq(s, i, i + Len(sub) - 1) = sub
            /\ \A j \in 1..(i - 1) : SubSeq(s, j, j + Len(sub) - 1) # sub
    ELSE 0

\* String.prototype.replace with a string pattern: the first occurrence only
ReplaceFirst(s, sub, by) ==
    LET i == IndexOf(s, sub)
    IN  IF i = 0 THEN s
        ELSE SubSeq(s, 1, i - 1) \o by \o SubSeq(s, i + Len(sub), Len(s))

\* String.prototype.startsWith
StartsWith(s, prefix) == Len(prefix) <= Len(s) /\ SubSeq(s, 1, Len(prefix)) = prefix

\* s.split(c)[0] for a set of separator characters
SplitHead(s, seps) == SubSeq(s, 1, LeadingRun(s, CharsOf(s) \ seps, 1))

Range(seq) == {seq[i] : i \in 1..Len(seq)}

RECURSIVE Flatten(_)
Flatten(seqs) == IF seqs = <<>> THEN <<>> ELSE Head(seqs) \o Flatten(Tail(seqs))

(***************************************************************************)
(* Versions: Version.parse, Version.toString, PatchVersionUpdate.bump.     *)
(***************************************************************************)
Digits == "0123456789"

DigitValue(c) == CHOOSE d \in 0..9 : Char(Digits, d + 1) = c

RECURSIVE NatOf(_)
NatOf(s) ==
    IF Len(s) = 0 THEN 0
    ELSE 10 * NatOf(SubSeq(s, 1, Len(s) - 1)) + DigitValue(Char(s, Len(s)))

RECURSIVE NatToString(_)
NatToString(n) ==
    IF n < 10 THEN Char(Digits, n + 1)
    ELSE NatToString(n \div 10) \o Char(Digits, (n % 10) + 1)

\* Version.parse of "major.minor.patch"
ParseVersion(s) ==
    LET d1 == LeadingRun(s, CharsOf(Digits), 1)
        r1 == SubSeq(s, d1 + 2, Len(s))
        d2 == LeadingRun(r1, CharsOf(Digits), 1)
        r2 == SubSeq(r1, d2 + 2, Len(r1))
    IN  [major |-> NatOf(SubSeq(s, 1, d1)),
         minor |-> NatOf(SubSeq(r1, 1, d2)),
         patch |-> NatOf(r2)]

VersionToString(v) ==
    NatToString(v.major) \o "." \o NatToString(v.minor) \o "." \o NatToString(v.patch)

(***************************************************************************)
(* Parsed pyproject.toml documents.  A value read from TOML is tagged with *)
(* its type: t = "str" (a string), "num" (a non-string value), "absent".   *)
(* sections lists the dependency-bearing tables present in the document.   *)
(***************************************************************************)
Str(s) == [t |-> "str", s |-> s]
Num(s) == [t |-> "num", s |-> s]
Absent == [t |-> "absent", s |-> ""]

\* JavaScript truthiness of a TOML value
Truthy(v) == (v.t = "str" /\ v.s # "") \/ (v.t = "num" /\ v.s # "0")

\* a || b
OrElse(a, b) == IF Truthy(a) THEN a ELSE b

Doc(name, version, sections, dependencies, optional, groups) ==
    [name |-> name, version |-> version,
     poetryName |-> Absent, poetryVersion |-> Absent,
     sections |-> sections, dependencies |-> dependencies,
     optional |-> optional, groups |-> groups]

CoreDoc == Doc(Str("core"), Str("1.0.0"), {}, <<>>, <<>>, <<>>)

CliDoc ==
    Doc(Str("cli"), Str("1.2.3"), {"dependencies"},
        <<"core[fast]>=1.0.0", "requests>=2.28">>, <<>>, <<>>)

\* a second manifest named core, depending on cli
CoreAltDoc == Doc(Str("core"), Str("2.0.9"), {"dependencies"}, <<"cli">>, <<>>, <<>>)

\* lists itself, and core twice, in three different sections
UtilDoc ==
    Doc(Str("util"), Str("0.9.9"),
        {"dependencies", "optional-dependencies", "dependency-groups"},
        <<"util>=0.1", "core~=1.0">>,
        <<[group |-> "fast", deps |-> <<"core">>]>>,
        <<[group |-> "dev", deps |-> <<"cli==1.2.3", "pytest">>]>>)

NamelessDoc == Doc(Absent, Absent, {}, <<>>, <<>>, <<>>)

NoVersionDoc == Doc(Str("app"), Absent, {"dependencies"}, <<"core>=1.0.0">>, <<>>, <<>>)

\* Poetry style: tool.poetry.name, and a version that is not a string
PoetryDoc ==
    [Doc(Absent, Absent, {}, <<>>, <<>>, <<>>)
        EXCEPT !.poetryName = Str("app"), !.poetryVersion = Num("7")]

\* what reading one manifest gives: its parsed content, or the read throws
Read(doc) == [read |-> "ok", doc |-> doc]
ReadThrows == [read |-> "throws", doc |-> NamelessDoc]

MemberPool ==
    {Read(CoreDoc), Read(CliDoc), Read(CoreAltDoc), Read(UtilDoc),
     Read(NamelessDoc), Read(NoVersionDoc), Read(PoetryDoc), ReadThrows}

\* root pyproject.toml: a workspace root without a package, one with a
\* package depending on cli, one whose member globs cannot be listed, one
\* that is no UV workspace, an unreadable one
RootDoc == Doc(Str("root"), Str("3.4.5"), {"dependencies"}, <<"cli>=1.2.3">>, <<>>, <<>>)

RootPool ==
    {[read |-> "ok", workspace |-> TRUE, glob |-> "ok", doc |-> NamelessDoc],
     [read |-> "ok", workspace |-> TRUE, glob |-> "ok", doc |-> RootDoc],
     [read |-> "ok", workspace |-> TRUE, glob |-> "throws", doc |-> RootDoc],
     [read |-> "ok", workspace |-> FALSE, glob |-> "ok", doc |-> CoreDoc],
     [read |-> "throws", workspace |-> FALSE, glob |-> "ok", doc |-> NamelessDoc]}

ROOT_PROJECT_PATH == "."

\* path of the i-th manifest the member globs find
MemberPath(i) == "packages/p" \o NatToString(i)

(***************************************************************************)
(* Errors and warnings.                                                    *)
(***************************************************************************)
\* at: the path the message names; names: the package names it names
NoError == [type |-> "none", what |-> "", at |-> "", names |-> {}]
ConfigurationError(what, at) ==
    [type |-> "ConfigurationError", what |-> what, at |-> at, names |-> {}]
\* an error thrown by the GitHub client (a failed read or listing)
TransportError(at) ==
    [type |-> "TransportError", what |-> "read failed", at |-> at, names |-> {}]
PlainError(what, at) == [type |-> "Error", what |-> what, at |-> at, names |-> {}]
Warning(what, at) == [what |-> what, at |-> at]

(***************************************************************************)
(* The uv-workspace plugin.                                                *)
(***************************************************************************)
addPath(path, file) == IF path = ROOT_PROJECT_PATH THEN file ELSE path \o "/" \o file

\* the version a release candidate at path carries (decided by its strategy)
CandidateVersion(path) ==
    IF path = ROOT_PROJECT_PATH THEN "4.0.0"
    ELSE "2." \o SubSeq(path, Len(path), Len(path)) \o ".0"

\* the members list of buildAllPackages: the glob results, then the root
MembersOf(repo) ==
    [i \in 1..(Len(repo.members) + 1) |->
        IF i <= Len(repo.members)
        THEN [path |-> MemberPath(i), entry |-> repo.members[i]]
        ELSE [path |-> ROOT_PROJECT_PATH,
              entry |-> [read |-> repo.root.read, doc |-> repo.root.doc]]]

\* the version check of the loop over members, accepting a non-string version
versionCheckStringsOnly(version, manifestPath) ==
    IF ~Truthy(version) THEN ConfigurationError("missing version", manifestPath)
    ELSE NoError

\* the version check of the loop over members: what it throws, if anything
versionCheck(version, manifestPath) ==
    IF ~Truthy(version) THEN ConfigurationError("missing version", manifestPath)
    ELSE IF version.t # "str" THEN ConfigurationError("invalid version", manifestPath)
    ELSE NoError

\* an iteration that examines the version before the name
buildAllPackagesStepVersionFirst(acc, member, candidates) ==
    IF member.entry.read = "throws"
    THEN [acc EXCEPT !.error = TransportError(addPath(member.path, "pyproject.toml"))]
    ELSE IF versionCheck(OrElse(member.entry.doc.version, member.entry.doc.poetryVersion),
                         addPath(member.path, "pyproject.toml")).type # "none"
    THEN [acc EXCEPT !.error =
             versionCheck(OrElse(member.entry.doc.version, member.entry.doc.poetryVersion),
                          addPath(member.path, "pyproject.toml"))]
    ELSE IF ~Truthy(OrElse(member.entry.doc.name, member.entry.doc.poetryName))
    THEN [acc EXCEPT !.warnings =
             @ \cup {Warning("missing name", addPath(member.path, "pyproject.toml"))}]
    ELSE [acc EXCEPT !.allPackages = Append(@,
             [path |-> member.path,
              name |-> OrElse(member.entry.doc.name, member.entry.doc.poetryName).s,
              version |-> OrElse(member.entry.doc.version, member.entry.doc.poetryVersion).s,
              manifest |-> member.entry.doc,
              manifestPath |-> addPath(member.path, "pyproject.toml")])]

\* one iteration of the loop over members; acc is the loop's state
buildAllPackagesStep(acc, member, candidates) ==
    LET path == member.path
        manifestPath == addPath(path, "pyproject.toml")
        manifest == member.entry.doc
        packageName == OrElse(manifest.name, manifest.poetryName)
        version == OrElse(manifest.version, manifest.poetryVersion)
        byPackage ==
            IF path \in candidates
            THEN [n \in DOMAIN acc.candidatesByPackage \cup {packageName.s} |->
                    IF n = packageName.s THEN path ELSE acc.candidatesByPackage[n]]
            ELSE acc.candidatesByPackage
    IN  IF member.entry.read = "throws"
        THEN [acc EXCEPT !.error = TransportError(manifestPath)]
        ELSE IF ~Truthy(packageName)
        THEN [acc EXCEPT !.warnings = @ \cup {Warning("missing name", manifestPath)}]
        ELSE IF versionCheck(version, manifestPath).type # "none"
        THEN [acc EXCEPT !.candidatesByPackage = byPackage,
                         !.error = versionCheck(version, manifestPath)]
        ELSE [acc EXCEPT !.candidatesByPackage = byPackage,
                         !.allPackages = Append(@,
                            [path |-> path, name |-> packageName.s,
                             version |-> version.s, manifest |-> manifest,
                             manifestPath |-> manifestPath])]

RECURSIVE buildAllPackagesLoop(_, _, _, _)
buildAllPackagesLoop(acc, members, i, candidates) ==
    IF i > Len(members) \/ acc.error.type # "none" THEN acc
    ELSE buildAllPackagesLoop(buildAllPackagesStep(acc, members[i], candidates),
                              members, i + 1, candidates)

NoPackages ==
    [allPackages |-> <<>>, candidatesByPackage |-> <<>>,
     error |-> NoError, warnings |-> {}]

buildAllPackages(repo, candidates) ==
    IF repo.root.read = "throws"
    THEN [NoPackages EXCEPT !.error = TransportError("pyproject.toml")]
    ELSE IF ~repo.root.workspace
    THEN [NoPackages EXCEPT !.warnings = {Warning("not a UV workspace", "pyproject.toml")}]
    ELSE IF repo.root.glob = "throws"
    THEN [NoPackages EXCEPT !.error = TransportError("members")]
    ELSE buildAllPackagesLoop(NoPackages, MembersOf(repo), 1, candidates)

\* /^([a-zA-Z0-9_-]+)/ : the leading run of name characters, else the input
extractPackageName(dependency) ==
    LET n == LeadingRun(dependency, NameChars, 1)
    IN  IF n > 0 THEN SubSeq(dependency, 1, n) ELSE dependency

\* the specifiers buildGraph collects from the sections of one manifest
allDepsOf(manifest) ==
    (IF "dependencies" \in manifest.sections THEN manifest.dependencies ELSE <<>>)
    \o (IF "optional-dependencies" \in manifest.sections
        THEN Flatten([i \in 1..Len(manifest.optional) |-> manifest.optional[i].deps])
        ELSE <<>>)
    \o (IF "dependency-groups" \in manifest.sections
        THEN Flatten([i \in 1..Len(manifest.groups) |-> manifest.groups[i].deps])
        ELSE <<>>)

\* Array.prototype.filter
RECURSIVE Filter(_, _)
Filter(seq, keep) ==
    IF seq = <<>> THEN <<>>
    ELSE (IF Head(seq) \in keep THEN <<Head(seq)>> ELSE <<>>) \o Filter(Tail(seq), keep)

\* the graph as a Map: graph.set of a name already present replaces its node
buildGraph(allPackages) ==
    LET workspacePackageNames == {allPackages[i].name : i \in 1..Len(allPackages)}
        last(n) == CHOOSE i \in 1..Len(allPackages) :
                      /\ allPackages[i].name = n
                      /\ \A j \in (i + 1)..Len(allPackages) : allPackages[j].name # n
        node(packageInfo) ==
            LET allDeps == allDepsOf(packageInfo.manifest)
                names == [i \in 1..Len(allDeps) |-> extractPackageName(allDeps[i])]
            IN  [deps |-> Filter(names, workspacePackageNames), value |-> packageInfo]
    IN  [n \in workspacePackageNames |-> node(allPackages[last(n)])]

\* a bump of the minor component instead
bumpVersionMinor(pkg) ==
    LET v == ParseVersion(pkg.version)
    IN  VersionToString([v EXCEPT !.minor = @ + 1, !.patch = 0])

\* PatchVersionUpdate: the patch component plus one
bumpVersion(pkg) ==
    LET v == ParseVersion(pkg.version)
    IN  VersionToString([v EXCEPT !.patch = @ + 1])

(***************************************************************************)
(* The cascade over the graph: the seed versions are those of the release  *)
(* candidates; every pass scans all nodes, in some order, and gives a node *)
(* not yet in the map a bumped version when one of its dependencies is in  *)
(* the map; the passes stop with the first that adds nothing, and a pass   *)
(* that still adds an entry after |nodes| passes is a ConfigurationError.  *)
(***************************************************************************)
Orders(S) == {o \in [1..Cardinality(S) -> S] : \A i, j \in DOMAIN o : i # j => o[i] # o[j]}

seedVersions(candidatesByPackage) ==
    [n \in DOMAIN candidatesByPackage |-> CandidateVersion(candidatesByPackage[n])]

\* a scan that only follows dependencies on the seed packages
scanNodeDirectOnly(graph, versions, name) ==
    IF name \notin DOMAIN versions
       /\ \E i \in 1..Len(graph[name].deps) :
             graph[name].deps[i] \in DOMAIN versions \cap DOMAIN plugin.candidatesByPackage
    THEN [n \in DOMAIN versions \cup {name} |->
            IF n = name THEN bumpVersion(graph[name].value) ELSE versions[n]]
    ELSE versions

scanNode(graph, versions, name) ==
    IF name \notin DOMAIN versions
       /\ \E i \in 1..Len(graph[name].deps) : graph[name].deps[i] \in DOMAIN versions
    THEN [n \in DOMAIN versions \cup {name} |->
            IF n = name THEN bumpVersion(graph[name].value) ELSE versions[n]]
    ELSE versions

RECURSIVE scanPass(_, _, _, _)
scanPass(graph, versions, order, i) ==
    IF i > Len(order) THEN versions
    ELSE scanPass(graph, scanNode(graph, versions, order[i]), order, i + 1)

(***************************************************************************)
(* One run of the plugin.                                                  *)
(***************************************************************************)
PluginUnused == [phase |-> "Unused"]
StrategyUnused == [phase |-> "Unused"]
UpdaterUnused == [phase |-> "Unused"]
MergerUnused == [phase |-> "Unused"]
NotesUnused == [phase |-> "Unused"]
LockUnused == [phase |-> "Unused"]

\* an entry of pullRequest.updates
CandidateUpdate(path, updaterClass, content, changelogEntry, versionsMap) ==
    [path |-> path, updater |-> updaterClass, content |-> content,
     changelogEntry |-> changelogEntry, versionsMap |-> versionsMap]

\* the pull request of a release candidate as its strategy built it: the
\* updates of the manifest and of the changelog, and the release notes
BasePullRequest(path) ==
    [updates |-> <<CandidateUpdate(addPath(path, "pyproject.toml"), "PyProjectToml",
                                   <<>>, <<>>, <<>>),
                   CandidateUpdate(addPath(path, "CHANGELOG.md"), "Changelog",
                                   <<>>, <<"release notes">>, <<>>)>>,
     releaseData |-> <<[component |-> path, notes |-> <<"release notes">>]>>]

PluginInit ==
    \E root \in RootPool, n \in 0..MaxMembers :
      \E members \in [1..n -> MemberPool] :
        \E candidates \in SUBSET ({ROOT_PROJECT_PATH} \cup {MemberPath(i) : i \in 1..n}) :
          plugin = [repo |-> [root |-> root, members |-> members],
                    candidates |-> candidates,
                    phase |-> "Idle",
                    allPackages |-> <<>>,
                    candidatesByPackage |-> <<>>,
                    graph |-> <<>>,
                    updatedVersions |-> <<>>,
                    passes |-> 0,
                    pullRequests |-> [path \in candidates |-> BasePullRequest(path)],
                    synthesized |-> {},
                    newCandidates |-> <<>>,
                    result |-> <<>>,
                    error |-> NoError,
                    warnings |-> {}]

BuildAllPackages ==
    /\ plugin.phase = "Idle"
    /\ LET r == buildAllPackages(plugin.repo, plugin.candidates)
       IN  IF r.error.type # "none"
           THEN plugin' = [plugin EXCEPT !.phase = "Failed", !.error = r.error,
                                         !.warnings = r.warnings]
           ELSE plugin' = [plugin EXCEPT !.phase = "Discovered",
                                         !.allPackages = r.allPackages,
                                         !.candidatesByPackage = r.candidatesByPackage,
                                         !.warnings = r.warnings]
    /\ UNCHANGED <<strategy, updater, merger, lock, notes>>

BuildGraph ==
    /\ plugin.phase = "Discovered"
    /\ plugin' = [plugin EXCEPT !.phase = "GraphBuilt",
                                !.graph = buildGraph(plugin.allPackages),
                                !.updatedVersions = seedVersions(plugin.candidatesByPackage)]
    /\ UNCHANGED <<strategy, updater, merger, lock, notes>>

\* a bound one pass short
passLimitShort(graph) == Cardinality(DOMAIN graph) - 1

\* the number of passes after which a pass that still adds is a cycle
passLimit(graph) == Cardinality(DOMAIN graph)

ClosurePass ==
    /\ plugin.phase = "GraphBuilt"
    /\ \E order \in Orders(DOMAIN plugin.graph) :
         LET after == scanPass(plugin.graph, plugin.updatedVersions, order, 1)
         IN  IF DOMAIN after = DOMAIN plugin.updatedVersions
             THEN plugin' = [plugin EXCEPT !.phase = "ClosureComputed",
                                           !.passes = @ + 1]
             ELSE IF plugin.passes + 1 >= passLimit(plugin.graph)
             THEN plugin' = [plugin EXCEPT
                    !.phase = "Failed",
                    !.passes = @ + 1,
                    !.updatedVersions = <<>>,
                    !.error = [ConfigurationError("dependency cycle", "") EXCEPT
                                  !.names = DOMAIN after \ DOMAIN plugin.updatedVersions]]
             ELSE plugin' = [plugin EXCEPT !.passes = @ + 1, !.updatedVersions = after]
    /\ UNCHANGED <<strategy, updater, merger, lock, notes>>


(***************************************************************************)
(* Properties of the plugin run.                                           *)
(***************************************************************************)
Nodes == DOMAIN plugin.graph
Seeds == DOMAIN plugin.candidatesByPackage
DependsOn(n, m) == \E i \in 1..Len(plugin.graph[n].deps) : plugin.graph[n].deps[i] = m

\* n reaches a seed package along dependency edges, in k edges or fewer
ReachesSeed(n, k) ==
    \E len \in 1..(k + 1) :
      \E p \in [1..len -> Nodes] :
        /\ p[1] = n
        /\ p[len] \in Seeds
        /\ \A i \in 1..(len - 1) : DependsOn(p[i], p[i + 1])

\* C1 (closure correctness): when the cascade returns, the keys of the
\* version map are exactly the seed packages and the packages from which a
\* seed package is reachable along dependency edges.
C1_ClosureCorrect ==
    plugin.phase = "ClosureComputed" =>
        DOMAIN plugin.updatedVersions =
            Seeds \cup {n \in Nodes : ReachesSeed(n, Cardinality(Nodes))}

\* a dependent at distance two of the seed is in the map
C1_Witness ==
    /\ plugin.phase = "ClosureComputed"
    /\ \E n \in DOMAIN plugin.updatedVersions :
         /\ n \notin Seeds
         /\ ~ReachesSeed(n, 1)
         /\ ReachesSeed(n, 2)

\* C2 (cycle detection): once the cascade has ended on a graph in which two
\* packages depend on each other, with a non-empty seed, it has failed with
\* a ConfigurationError naming both, and there is no version map.
C2_CycleRejected ==
    \A a, b \in (IF plugin.phase \in {"ClosureComputed", "Failed"} THEN Nodes ELSE {}) :
        (/\ a # b
         /\ DependsOn(a, b)
         /\ DependsOn(b, a)
         /\ Seeds # {}
         /\ plugin.passes > 0)
        => /\ plugin.phase = "Failed"
           /\ plugin.error.type = "ConfigurationError"
           /\ {a, b} \subseteq plugin.error.names
           /\ plugin.updatedVersions = <<>>

\* C3 (version assignment): every seed package has the version of its
\* release candidate, every other package of the map has its current
\* version with the patch component incremented by one.
C3_VersionsAssigned ==
    plugin.phase \in {"GraphBuilt", "ClosureComputed"} =>
        \A n \in DOMAIN plugin.updatedVersions :
            IF n \in Seeds
            THEN plugin.updatedVersions[n] = CandidateVersion(plugin.candidatesByPackage[n])
            ELSE LET cur == ParseVersion(plugin.graph[n].value.version)
                 IN  plugin.updatedVersions[n] =
                        NatToString(cur.major) \o "." \o NatToString(cur.minor)
                            \o "." \o NatToString(cur.patch + 1)

\* a seed and a cascaded package are both in the returned map
C3_Witness ==
    /\ plugin.phase = "ClosureComputed"
    /\ \E n, m \in DOMAIN plugin.updatedVersions :
         /\ n \in Seeds
         /\ m \notin Seeds
         /\ plugin.graph[m].value.version = "0.9.9"
         /\ plugin.updatedVersions[m] = "0.9.10"

\* C7 (duplicate names): a graph is only built from packages whose names
\* are pairwise different.
C7_DuplicateNamesRejected ==
    plugin.phase \in {"GraphBuilt", "ClosureComputed"} =>
        \A i, j \in 1..Len(plugin.allPackages) :
            i # j => plugin.allPackages[i].name # plugin.allPackages[j].name

\* the member loop of buildAllPackages was entered
Iterated ==
    /\ plugin.phase # "Idle"
    /\ plugin.repo.root.read = "ok"
    /\ plugin.repo.root.workspace
    /\ plugin.repo.root.glob = "ok"

Discovered == MembersOf(plugin.repo)
DeclaresName(doc) == Truthy(doc.name) \/ Truthy(doc.poetryName)
\* the manifest has no version, or a version that is not a string
LacksStringVersion(doc) ==
    LET v == IF Truthy(doc.version) THEN doc.version ELSE doc.poetryVersion
    IN  v.t # "str" \/ v.s = ""

\* C8 as stated: every member manifest that was read and has no version, or
\* a version that is not a string, makes discovery fail with a
\* ConfigurationError naming the path of such a manifest.
C8_EveryVersionlessManifestFails ==
    (Iterated /\ \A i \in DOMAIN Discovered : Discovered[i].entry.read = "ok") =>
        \A i \in 1..Len(plugin.repo.members) :
            LacksStringVersion(Discovered[i].entry.doc) =>
                /\ plugin.phase = "Failed"
                /\ plugin.error.type = "ConfigurationError"
                /\ \E j \in DOMAIN Discovered :
                     /\ LacksStringVersion(Discovered[j].entry.doc)
                     /\ plugin.error.at = addPath(Discovered[j].path, "pyproject.toml")

\* C8, amended: the first manifest in discovery order that declares a
\* package name and has no version, or a version that is not a string,
\* makes discovery fail with a ConfigurationError naming its path (every
\* manifest before it having been read), and no package list is returned.
C8_NamedVersionlessManifestFails ==
    Iterated =>
        \A i \in DOMAIN Discovered :
            (/\ Discovered[i].entry.read = "ok"
             /\ DeclaresName(Discovered[i].entry.doc)
             /\ LacksStringVersion(Discovered[i].entry.doc)
             /\ \A j \in 1..(i - 1) :
                  /\ Discovered[j].entry.read = "ok"
                  /\ ~(/\ DeclaresName(Discovered[j].entry.doc)
                       /\ LacksStringVersion(Discovered[j].entry.doc)))
            => /\ plugin.phase = "Failed"
               /\ plugin.error.type = "ConfigurationError"
               /\ plugin.error.at = addPath(Discovered[i].path, "pyproject.toml")
               /\ plugin.allPackages = <<>>
               /\ plugin.graph = <<>>

\* discovery failed on a manifest with a non-string version that came after
\* a nameless manifest, which was skipped
C8_Witness ==
    /\ Iterated
    /\ plugin.phase = "Failed"
    /\ plugin.error = ConfigurationError("invalid version", "packages/p2/pyproject.toml")
    /\ ~DeclaresName(Discovered[1].entry.doc)
    /\ Discovered[1].entry.read = "ok"

(***************************************************************************)
(* The uv-workspace strategy.  impl names the revision of the class:       *)
(* "current" is src/strategies/uv-workspace.ts, "earlier" the revision     *)
(* that skips unreadable members and pushes two updates per member.        *)
(***************************************************************************)
Impls == {"current", "earlier"}

Missing == [read |-> "missing", doc |-> NamelessDoc]

\* a member that depends on the package of the workspace root
AppDoc == Doc(Str("app"), Str("0.1.0"), {"dependencies"}, <<"root>=3.4.5">>, <<>>, <<>>)

StrategyMemberPool ==
    {Read(CoreDoc), Read(CliDoc), Read(UtilDoc), Read(AppDoc), Read(NamelessDoc),
     Missing, ReadThrows}

StrategyRootPool ==
    RootPool \cup {[read |-> "missing", workspace |-> FALSE, glob |-> "ok", doc |-> NamelessDoc]}

\* tool.uv.workspace.members of a workspace root
WorkspaceMembers == <<"packages/*", "apps/cli">>

\* the version the release is cut at (options.newVersion)
NewVersion == "1.3.0"

\* the strategy sits at the repository root
strategyAddPath(file) == addPath(ROOT_PROJECT_PATH, file)

\* github.getFileContentsOnBranch: the entry at a path of the repository
FileAt(env, path) ==
    IF path = "pyproject.toml" THEN [read |-> env.root.read, doc |-> env.root.doc]
    ELSE IF path = "apps/cli/pyproject.toml" THEN env.cli
    ELSE IF \E i \in 1..Len(env.listed) : path = MemberPath(i) \o "/pyproject.toml"
    THEN env.listed[CHOOSE i \in 1..Len(env.listed) : path = MemberPath(i) \o "/pyproject.toml"]
    ELSE Missing

\* what a listing of the member manifests returns, in the order given
ListingOf(order) == [i \in 1..Len(order) |-> MemberPath(order[i]) \o "/pyproject.toml"]

\* getContent: null for a file that is not there and for a read that throws
Null == [read |-> "null", doc |-> NamelessDoc]
catchToNull(got) == IF got.read = "ok" THEN got ELSE Null
getContent(env, path) == catchToNull(FileAt(env, strategyAddPath(path)))

\* files.map(f => f.replace('/pyproject.toml', ''))
DirsOf(files) == [i \in 1..Len(files) |-> ReplaceFirst(files[i], "/pyproject.toml", "")]

\* the earlier revision lists by file name under basePath and filters by prefix
listedDirs(impl, dirs, basePath) ==
    IF impl = "current" THEN dirs
    ELSE Filter(dirs, {d \in Range(dirs) : StartsWith(d, basePath)})

\* expandWorkspaceMember: the member paths of one pattern
expandWorkspaceMember(impl, env, order, pattern) ==
    IF ~Includes(pattern, "*")
    THEN [paths |-> <<pattern>>, error |-> NoError, warnings |-> {}]
    ELSE IF env.root.glob = "throws"
    THEN IF impl = "current"
         THEN [paths |-> <<>>, warnings |-> {},
               error |-> PlainError("Failed to expand workspace member pattern", pattern)]
         ELSE [paths |-> <<>>, error |-> NoError,
               warnings |-> {Warning("Failed to expand workspace pattern", pattern)}]
    ELSE [paths |-> listedDirs(impl, DirsOf(ListingOf(order)), SplitHead(pattern, {"*"})),
          error |-> NoError, warnings |-> {}]

\* Map.prototype.set on a map kept as the sequence of its entries
MapSet(map, key, value) ==
    IF \E i \in 1..Len(map) : map[i].path = key
    THEN [i \in 1..Len(map) |-> IF map[i].path = key THEN [path |-> key, manifest |-> value]
                                ELSE map[i]]
    ELSE Append(map, [path |-> key, manifest |-> value])

\* the body of the inner loop of parseMemberManifests, for one member path
parseMemberPath(impl, acc, memberPath, manifestContent) ==
    IF manifestContent.read = "null"
    THEN IF impl = "current"
         THEN [acc EXCEPT !.error =
                  PlainError("pyproject.toml not found", memberPath \o "/pyproject.toml")]
         ELSE [acc EXCEPT !.warnings =
                  @ \cup {Warning("did not find pyproject.toml", memberPath)}]
    ELSE [acc EXCEPT !.memberManifests = MapSet(@, memberPath, manifestContent.doc)]

\* the inner loop of parseMemberManifests, over the paths of one pattern
RECURSIVE parseMemberPaths(_, _, _, _, _)
parseMemberPaths(impl, env, acc, paths, i) ==
    IF i > Len(paths) \/ acc.error.type # "none" THEN acc
    ELSE parseMemberPaths(impl, env,
             parseMemberPath(impl, acc, paths[i],
                             getContent(env, paths[i] \o "/pyproject.toml")),
             paths, i + 1)

\* one round of the outer loop: the pattern expanded, then its paths parsed
parseExpanded(impl, env, acc, expanded) ==
    parseMemberPaths(impl, env,
        [acc EXCEPT !.error = expanded.error, !.warnings = @ \cup expanded.warnings],
        expanded.paths, 1)

\* parseMemberManifests: the loop over the member patterns
RECURSIVE parseMemberManifests(_, _, _, _, _, _)
parseMemberManifests(impl, env, order, acc, members, i) ==
    IF i > Len(members) \/ acc.error.type # "none" THEN acc
    ELSE parseMemberManifests(impl, env, order,
             parseExpanded(impl, env, acc,
                           expandWorkspaceMember(impl, env, order, members[i])),
             members, i + 1)

\* extractPackageName of the earlier revision: split(/[<>=!]/)[0].trim()
extractPackageNameBySplit(dependency) ==
    Trim(SplitHead(dependency, {"<", ">", "=", "!"}))

\* isWorkspacePackage: the name of a parsed member, or of the root package
isWorkspacePackage(inst, packageName) ==
    \/ \E i \in 1..Len(inst.memberManifests) :
          /\ inst.memberManifests[i].manifest.name.t = "str"
          /\ inst.memberManifests[i].manifest.name.s = packageName
    \/ /\ inst.workspaceManifest.state = "loaded"
       /\ inst.workspaceManifest.doc.name.t = "str"
       /\ inst.workspaceManifest.doc.name.s = packageName

\* the specifiers buildDependencyGraph looks at: dependencies, then the groups
declaredDeps(manifest) ==
    (IF "dependencies" \in manifest.sections THEN manifest.dependencies ELSE <<>>)
    \o (IF "dependency-groups" \in manifest.sections
        THEN Flatten([g \in 1..Len(manifest.groups) |-> manifest.groups[g].deps])
        ELSE <<>>)

\* the Set of workspace names among the specifiers listed
workspaceDeps(inst, listed) ==
    {n \in {extractPackageNameBySplit(listed[k]) : k \in 1..Len(listed)} :
        isWorkspacePackage(inst, n)}

\* the entries of memberManifests that have a project.name
namedEntries(mm) == {i \in 1..Len(mm) : Truthy(mm[i].manifest.name)}

\* the last entry named n: a later dependencyGraph.set replaces an earlier one
lastNamed(mm, named, n) ==
    CHOOSE i \in named :
        /\ mm[i].manifest.name.s = n
        /\ \A j \in named : j > i => mm[j].manifest.name.s # n

graphOver(inst, mm, named) ==
    [n \in {mm[i].manifest.name.s : i \in named} \cup DOMAIN inst.dependencyGraph |->
        IF \E i \in named : mm[i].manifest.name.s = n
        THEN workspaceDeps(inst, declaredDeps(mm[lastNamed(mm, named, n)].manifest))
        ELSE inst.dependencyGraph[n]]

\* buildDependencyGraph (earlier revision): name -> set of workspace names
buildDependencyGraph(inst) ==
    graphOver(inst, inst.memberManifests, namedEntries(inst.memberManifests))

Update(path, updaterClass, versionsMap) ==
    [path |-> path, updater |-> updaterClass, version |-> NewVersion,
     versionsMap |-> versionsMap]

\* the updates pushed for one member manifest
memberUpdates(impl, entry, versionsMap) ==
    IF impl = "current"
    THEN <<Update(strategyAddPath(entry.path \o "/pyproject.toml"),
                  IF "dependency-groups" \in entry.manifest.sections
                  THEN "UvWorkspaceToml" ELSE "PyProjectToml",
                  IF "dependency-groups" \in entry.manifest.sections
                  THEN versionsMap ELSE <<>>)>>
    ELSE <<Update(strategyAddPath(entry.path \o "/pyproject.toml"), "PyProjectToml", <<>>)>>
         \o (IF "dependency-groups" \in entry.manifest.sections
             THEN <<Update(strategyAddPath(entry.path \o "/pyproject.toml"),
                           "UvWorkspaceToml", versionsMap)>>
             ELSE <<>>)

\* getWorkspaceManifest: read once, then kept on the instance
loadedManifest(env, content) ==
    IF content.read = "null"
    THEN [state |-> "null", workspace |-> FALSE, doc |-> NamelessDoc]
    ELSE [state |-> "loaded", workspace |-> env.root.workspace, doc |-> content.doc]

getWorkspaceManifest(env, inst) ==
    IF inst.workspaceManifest.state = "undefined"
    THEN loadedManifest(env, getContent(env, "pyproject.toml"))
    ELSE inst.workspaceManifest

\* versionsMap.set for the root package
\* a map that leaves the root package out
rootSetsWithoutRoot(workspaceManifest) == <<>>

rootSets(workspaceManifest) ==
    IF Truthy(workspaceManifest.doc.name) THEN <<workspaceManifest.doc.name.s>> ELSE <<>>

\* versionsMap.set for each member manifest that has a name, in Map order
memberSets(mm) ==
    Filter([i \in 1..Len(mm) |->
               IF Truthy(mm[i].manifest.name) THEN mm[i].manifest.name.s ELSE ""],
           {mm[i].manifest.name.s : i \in 1..Len(mm)} \ {""})

versionsMapOf(sets) == [n \in Range(sets) |-> NewVersion]

changelogUpdate == <<Update(strategyAddPath("CHANGELOG.md"), "Changelog", <<>>)>>

\* the updates of a workspace: changelog, root, members in Map order, lock file
workspaceUpdates(impl, mm, versionsMap) ==
    changelogUpdate
    \o <<Update(strategyAddPath("pyproject.toml"), "UvWorkspaceToml", versionsMap)>>
    \o Flatten([i \in 1..Len(mm) |-> memberUpdates(impl, mm[i], versionsMap)])
    \o <<Update(strategyAddPath("uv.lock"), "UvLock", versionsMap)>>

\* buildUpdates when the root has no tool.uv.workspace.members
noWorkspace(impl, inst1) ==
    IF impl = "current"
    THEN [inst |-> inst1, updates |-> <<>>, sets |-> <<>>, warnings |-> {},
          error |-> PlainError("No UV workspace configuration found", "pyproject.toml")]
    ELSE [inst |-> inst1, sets |-> <<>>, error |-> NoError,
          warnings |-> {Warning("No UV workspace configuration found", "")},
          updates |-> changelogUpdate \o
              <<Update(strategyAddPath("pyproject.toml"), "PyProjectToml", <<>>)>>]

withGraph(impl, inst2) ==
    IF impl = "earlier"
    THEN [inst2 EXCEPT !.dependencyGraph = buildDependencyGraph(inst2)]
    ELSE inst2

\* buildUpdates once every member manifest has been parsed
collectUpdates(impl, inst2, warnings, sets) ==
    [inst |-> withGraph(impl, inst2), sets |-> sets, warnings |-> warnings,
     error |-> NoError,
     updates |-> workspaceUpdates(impl, inst2.memberManifests, versionsMapOf(sets))]

\* buildUpdates from the outcome of parseMemberManifests
afterParse(impl, inst1, parsed) ==
    IF parsed.error.type # "none"
    THEN [inst |-> [inst1 EXCEPT !.memberManifests = parsed.memberManifests],
          updates |-> <<>>, sets |-> rootSets(inst1.workspaceManifest),
          warnings |-> parsed.warnings, error |-> parsed.error]
    ELSE collectUpdates(impl,
             [inst1 EXCEPT !.memberManifests = parsed.memberManifests],
             parsed.warnings,
             rootSets(inst1.workspaceManifest) \o memberSets(parsed.memberManifests))

\* buildUpdates once the workspace manifest is on the instance
buildUpdatesFrom(impl, env, order, inst1) ==
    IF ~(inst1.workspaceManifest.state = "loaded" /\ inst1.workspaceManifest.workspace)
    THEN noWorkspace(impl, inst1)
    ELSE afterParse(impl, inst1,
             parseMemberManifests(impl, env, order,
                 [memberManifests |-> inst1.memberManifests,
                  error |-> NoError, warnings |-> {}],
                 WorkspaceMembers, 1))

\* buildUpdates, from the state inst of the instance: the state it leaves
\* and what it returns (updates) or throws (error)
buildUpdates(impl, env, order, inst) ==
    buildUpdatesFrom(impl, env, order,
        [inst EXCEPT !.workspaceManifest = getWorkspaceManifest(env, inst)])

FreshInstance ==
    [workspaceManifest |-> [state |-> "undefined", workspace |-> FALSE, doc |-> NamelessDoc],
     memberManifests |-> <<>>,
     dependencyGraph |-> <<>>]

StrategyInit ==
    \E impl \in Impls, root \in StrategyRootPool, cli \in StrategyMemberPool,
       n \in 0..MaxMembers :
      \E listed \in [1..n -> StrategyMemberPool] :
        strategy = [impl |-> impl,
                    env |-> [root |-> root, cli |-> cli, listed |-> listed],
                    inst |-> FreshInstance,
                    phase |-> "Idle",
                    updates |-> <<>>,
                    sets |-> <<>>,
                    error |-> NoError,
                    warnings |-> {}]

\* the order the listing returns the member manifests in
ListingOrders(env) == Orders(1..Len(env.listed))

BuildUpdates ==
    /\ strategy.phase = "Idle"
    /\ \E order \in ListingOrders(strategy.env) :
         \E r \in {buildUpdates(strategy.impl, strategy.env, order, strategy.inst)} :
             strategy' = [strategy EXCEPT
                !.phase = IF r.error.type = "none" THEN "Done" ELSE "Failed",
                !.inst = r.inst,
                !.updates = r.updates,
                !.sets = r.sets,
                !.error = r.error,
                !.warnings = r.warnings]
    /\ UNCHANGED <<plugin, updater, merger, lock, notes>>

StrategyNext == BuildUpdates

InitStrategy ==
    StrategyInit /\ plugin = PluginUnused /\ updater = UpdaterUnused /\ merger = MergerUnused
        /\ lock = LockUnused
        /\ notes = NotesUnused

SpecStrategy == InitStrategy /\ [][StrategyNext]_vars

(***************************************************************************)
(* Properties of one run of the strategy on a fresh instance.              *)
(***************************************************************************)
\* the strategy has run to its end, by returning or by throwing
StrategyRan == strategy.phase \in {"Done", "Failed"}

\* the root manifest was read and declares tool.uv.workspace.members
WorkspaceFound(env) == env.root.read = "ok" /\ env.root.workspace

\* the member directories the workspace declares
DeclaredMemberPaths(env) ==
    {"apps/cli"} \cup
    (IF env.root.glob = "ok" THEN {MemberPath(i) : i \in 1..Len(env.listed)} ELSE {})

\* the declared members whose manifest is not in the repository
MissingMembers(env) ==
    {p \in DeclaredMemberPaths(env) : FileAt(env, p \o "/pyproject.toml").read = "missing"}

\* the declared members whose manifest cannot be read
ThrowingMembers(env) ==
    {p \in DeclaredMemberPaths(env) : FileAt(env, p \o "/pyproject.toml").read = "throws"}

\* no read and no listing of this repository fails in transport
NoTransportFailure(env) ==
    /\ env.root.read # "throws"
    /\ env.root.glob = "ok"
    /\ ThrowingMembers(env) = {}

\* C4: a run that returns gives the same sequence of updates under every
\* order in which the listing could have returned the member manifests.
C4_UpdatesIndependentOfDiscoveryOrder ==
    strategy.phase = "Done" =>
        \A order \in ListingOrders(strategy.env) :
            buildUpdates(strategy.impl, strategy.env, order, FreshInstance).updates
                = strategy.updates

\* C9: when no read fails in transport and the manifest of a declared
\* workspace member is not found, the run fails, returns no updates, and
\* its error names the manifest path of such a member.
C9_MissingMemberManifestFails ==
    (/\ StrategyRan
     /\ WorkspaceFound(strategy.env)
     /\ NoTransportFailure(strategy.env)
     /\ MissingMembers(strategy.env) # {})
    => /\ strategy.phase = "Failed"
       /\ strategy.updates = <<>>
       /\ \E p \in MissingMembers(strategy.env) :
             strategy.error.at = p \o "/pyproject.toml"

\* a read or a listing that the run performs fails in transport: the read
\* of the root manifest, the listing of the member pattern, or the read of
\* a member manifest when no member manifest is missing
TransportFailureMet(env) ==
    \/ env.root.read = "throws"
    \/ WorkspaceFound(env) /\ env.root.glob = "throws"
    \/ /\ WorkspaceFound(env)
       /\ env.root.glob = "ok"
       /\ ThrowingMembers(env) # {}
       /\ MissingMembers(env) = {}

\* C10: when a read or a listing the run performs fails in transport, the
\* run fails and the error the caller gets is that transport error.
C10_TransportFailurePropagates ==
    (StrategyRan /\ TransportFailureMet(strategy.env))
    => /\ strategy.phase = "Failed"
       /\ strategy.error.type = "TransportError"

(***************************************************************************)
(* The UvWorkspaceToml updater.  The content of a pyproject.toml is kept   *)
(* as its parsed document; a dependency specifier is its text.             *)
(***************************************************************************)
\* longest project.dependencies list of a manifest handed to the updater
MaxDeps == 2

\* number of times the updater is applied to one manifest
MaxApplications == 2

SpecifierPool ==
    {"core==1.0.0", "core>=1.0.0", "core^1.0", "core~=1.0", "core", "core<2.0",
     "core[fast]>=1.0.0", "requests>=2.28", " core", "cli != 1.0",
     "core>=1.0;os_name=='nt'"}

\* the specifiers drawn for a dependency group
GroupSpecifierPool == {"core>=1.0.0", "cli", "requests>=2.28"}

\* options.versionsMap: left out, or a Map from package name to new version
NoVersionsMap == [defined |-> FALSE, map |-> <<>>]
VersionsMapOver(names, version) == [defined |-> TRUE, map |-> [n \in names |-> version]]

UpdaterOptionsPool ==
    {[version |-> NewVersion, versionsMap |-> m] :
        m \in {NoVersionsMap, VersionsMapOver({"core"}, NewVersion),
               VersionsMapOver({"core", "cli", "app"}, NewVersion)}}

\* index.toString() of a forEach index
IndexToString(i) == NatToString(i - 1)

\* replaceTomlValue: the document with the value at path replaced
replaceTomlValue(content, path, value) ==
    IF path = <<"project", "version">>
    THEN [content EXCEPT !.version = Str(value)]
    ELSE IF path[1] = "project"
    THEN [content EXCEPT !.dependencies[NatOf(path[3]) + 1] = value]
    ELSE IF path[1] = "package"
    THEN [content EXCEPT !.entries[NatOf(path[2]) + 1].version = value]
    ELSE [content EXCEPT
            !.groups[CHOOSE g \in 1..Len(content.groups) :
                        content.groups[g].group = path[2]].deps[NatOf(path[3]) + 1] = value]

\* one call of replaceTomlValue on processedContent, and its record
applyReplace(acc, path, value) ==
    [content |-> replaceTomlValue(acc.content, path, value),
     calls |-> Append(acc.calls, [path |-> path, value |-> value])]

\* the branches of updateDependencyString once the name is in the map; a
\* variant whose last branch appends the pin to the specifier it found
rewriteSpecifierAppending(packageName, versionSpec, newVersion) ==
    IF Includes(versionSpec, "==") THEN packageName \o "==" \o newVersion
    ELSE IF Includes(versionSpec, ">=") THEN packageName \o ">=" \o newVersion
    ELSE IF Includes(versionSpec, "^") THEN packageName \o "^" \o newVersion
    ELSE IF Includes(versionSpec, "~") THEN packageName \o "~" \o newVersion
    ELSE IF Trim(versionSpec) = "" THEN packageName \o "==" \o newVersion
    ELSE packageName \o versionSpec \o "==" \o newVersion

rewriteSpecifier(packageName, versionSpec, newVersion) ==
    IF Includes(versionSpec, "==") THEN packageName \o "==" \o newVersion
    ELSE IF Includes(versionSpec, ">=") THEN packageName \o ">=" \o newVersion
    ELSE IF Includes(versionSpec, "^") THEN packageName \o "^" \o newVersion
    ELSE IF Includes(versionSpec, "~") THEN packageName \o "~" \o newVersion
    ELSE IF Trim(versionSpec) = "" THEN packageName \o "==" \o newVersion
    ELSE packageName \o "==" \o newVersion

\* updateDependencyString after dependency.match(/^([a-zA-Z0-9_-]+)(.*)/):
\* nameLength = 0 when there is no match
matchedDependency(map, dependency, nameLength) ==
    IF nameLength = 0 THEN dependency
    ELSE IF SubSeq(dependency, 1, nameLength) \notin DOMAIN map THEN dependency
    ELSE rewriteSpecifier(SubSeq(dependency, 1, nameLength),
                          SubSeq(dependency, nameLength + 1, Len(dependency)),
                          map[SubSeq(dependency, 1, nameLength)])

updateDependencyString(versionsMap, dependency) ==
    IF ~versionsMap.defined THEN dependency
    ELSE matchedDependency(versionsMap.map, dependency,
                           LeadingRun(dependency, NameChars, 1))

\* the body of the forEach of updateDependencies and updateDependencyGroups
updateEntry(acc, path, dep, updatedDep) ==
    IF updatedDep # dep THEN applyReplace(acc, path, updatedDep) ELSE acc

\* dependencies.forEach((dep, index) => ...) under the path prefix given
RECURSIVE updateEntries(_, _, _, _, _)
updateEntries(versionsMap, acc, prefix, dependencies, i) ==
    IF i > Len(dependencies) THEN acc
    ELSE updateEntries(versionsMap,
             updateEntry(acc, prefix \o <<IndexToString(i)>>, dependencies[i],
                         updateDependencyString(versionsMap, dependencies[i])),
             prefix, dependencies, i + 1)

updateDependencies(versionsMap, acc, dependencies) ==
    updateEntries(versionsMap, acc, <<"project", "dependencies">>, dependencies, 1)

RECURSIVE updateDependencyGroups(_, _, _, _)
updateDependencyGroups(versionsMap, acc, dependencyGroups, g) ==
    IF g > Len(dependencyGroups) THEN acc
    ELSE updateDependencyGroups(versionsMap,
             updateEntries(versionsMap, acc,
                           <<"dependency-groups", dependencyGroups[g].group>>,
                           dependencyGroups[g].deps, 1),
             dependencyGroups, g + 1)

\* the three steps of updateContent, each on the document parsed at entry
updateOwnVersion(options, parsed, acc) ==
    IF Truthy(parsed.version)
    THEN applyReplace(acc, <<"project", "version">>, options.version)
    ELSE acc

updateGroupsStep(options, parsed, acc) ==
    IF options.versionsMap.defined /\ "dependency-groups" \in parsed.sections
    THEN updateDependencyGroups(options.versionsMap, acc, parsed.groups, 1)
    ELSE acc

updateDependenciesStep(options, parsed, acc) ==
    IF options.versionsMap.defined /\ "dependencies" \in parsed.sections
    THEN updateDependencies(options.versionsMap, acc, parsed.dependencies)
    ELSE acc

\* the three steps with the version written last
updateContentVersionLast(options, content) ==
    updateOwnVersion(options, content,
        updateDependenciesStep(options, content,
            updateGroupsStep(options, content, [content |-> content, calls |-> <<>>])))

\* UvWorkspaceToml.updateContent: the updated content, and the calls of
\* replaceTomlValue it made
updateContent(options, content) ==
    updateDependenciesStep(options, content,
        updateGroupsStep(options, content,
            updateOwnVersion(options, content, [content |-> content, calls |-> <<>>])))

\* the manifests handed to the updater
UpdaterContent(name, version, dependencies, extras, grouped, groupDeps) ==
    Doc(name, version,
        (IF dependencies # <<>> THEN {"dependencies"} ELSE {})
            \cup (IF extras THEN {"optional-dependencies"} ELSE {})
            \cup (IF grouped THEN {"dependency-groups"} ELSE {}),
        dependencies,
        IF extras THEN <<[group |-> "fast", deps |-> <<"core>=1.0.0">>]>> ELSE <<>>,
        IF grouped THEN <<[group |-> "dev", deps |-> groupDeps]>> ELSE <<>>)

UpdaterInit ==
    \E options \in UpdaterOptionsPool, name \in {Str("app"), Absent},
       version \in {Str("1.0.0"), Absent},
       n \in 0..MaxDeps, extras \in BOOLEAN, grouped \in BOOLEAN, k \in 0..1 :
      \E dependencies \in [1..n -> SpecifierPool],
         groupDeps \in [1..k -> GroupSpecifierPool] :
        /\ grouped \/ k = 0
        /\ updater = [phase |-> "Ready",
                      options |-> options,
                      content |-> UpdaterContent(name, version, dependencies, extras,
                                                 grouped, groupDeps),
                      log |-> <<>>]

\* one application of the updater to the content as it stands
UpdateContent ==
    /\ updater.phase = "Ready"
    /\ Len(updater.log) < MaxApplications
    /\ \E r \in {updateContent(updater.options, updater.content)} :
         updater' = [updater EXCEPT
            !.content = r.content,
            !.log = Append(@, [before |-> updater.content, after |-> r.content,
                               calls |-> r.calls])]
    /\ UNCHANGED <<plugin, strategy, merger, lock, notes>>

UpdaterNext == UpdateContent

InitUpdater ==
    UpdaterInit /\ plugin = PluginUnused /\ strategy = StrategyUnused /\ merger = MergerUnused
        /\ lock = LockUnused
        /\ notes = NotesUnused

SpecUpdater == InitUpdater /\ [][UpdaterNext]_vars

\* the calls of one application that rewrite a dependency specifier
DependencyCalls(entry) ==
    {i \in 1..Len(entry.calls) : entry.calls[i].path # <<"project", "version">>}

\* C5: an application of the updater to content the same updater has
\* already been applied to leaves the content as it is and rewrites no
\* dependency specifier; the only value it writes is the version that is
\* already there.
C5_UpdaterIdempotent ==
    \A k \in 2..Len(updater.log) :
        /\ updater.log[k].after = updater.log[k].before
        /\ DependencyCalls(updater.log[k]) = {}
        /\ \A i \in 1..Len(updater.log[k].calls) :
              Str(updater.log[k].calls[i].value) = updater.log[k].before.version

\* the updater rewrote the version and a specifier, then was applied again
C5_Witness ==
    /\ Len(updater.log) >= 2
    /\ DependencyCalls(updater.log[1]) # {}
    /\ updater.log[1].before.version # updater.log[1].after.version

(***************************************************************************)
(* The update merger: the instructions of one run grouped by file, each    *)
(* group ordered by kind, the groups ordered by path; two instructions     *)
(* that set one field of one file to different values fail the merge.      *)
(***************************************************************************)
\* longest list of instructions handed to merge
MaxInstructions == 3

\* the kinds of instruction, in priority order
Kinds == <<"SetVersion", "SetDependencyVersion", "AppendChangelogNote">>

Instruction(path, selector, value, kind) ==
    [targetFilePath |-> path, fieldSelector |-> selector, newValue |-> value, kind |-> kind]

ManifestPaths == {"packages/p1/pyproject.toml", "apps/cli/pyproject.toml"}

\* the version of the release, and a patch bump from the cascade
InstructionValues == {NewVersion, "1.0.1"}

InstructionPool ==
    {Instruction(p, "project.version", v, "SetVersion") :
        p \in ManifestPaths, v \in InstructionValues}
    \cup {Instruction(p, "project.dependencies[0]", "core>=" \o v, "SetDependencyVersion") :
            p \in ManifestPaths, v \in InstructionValues}
    \cup {Instruction("uv.lock", "package[0].version", v, "SetVersion") :
            v \in InstructionValues}
    \cup {Instruction("apps/cli/CHANGELOG.md", "notes", "core bumped to 1.0.1",
                      "AppendChangelogNote")}

\* the characters of a path, in code unit order
PathAlphabet == "-./0123456789ABCDEFGHIJKLMNOPQRSTUVWXYZ_abcdefghijklmnopqrstuvwxyz"

CharCode(c) == CHOOSE i \in 1..Len(PathAlphabet) : Char(PathAlphabet, i) = c

\* a < b, lexicographically
LexLess(a, b) ==
    \E i \in 1..Len(b) :
        /\ i - 1 <= Len(a)
        /\ SubSeq(a, 1, i - 1) = SubSeq(b, 1, i - 1)
        /\ (i > Len(a) \/ CharCode(Char(a, i)) < CharCode(Char(b, i)))

\* the pairs a merge that only compared neighbouring instructions would find
conflictsOfNeighbours(instructions) ==
    {c \in (1..Len(instructions)) \X (1..Len(instructions)) :
        /\ c[2] = c[1] + 1
        /\ instructions[c[1]].targetFilePath = instructions[c[2]].targetFilePath
        /\ instructions[c[1]].fieldSelector = instructions[c[2]].fieldSelector
        /\ instructions[c[1]].newValue # instructions[c[2]].newValue}

\* the pairs of instructions in conflict: one file, one field, two values
conflictsOf(instructions) ==
    {c \in (1..Len(instructions)) \X (1..Len(instructions)) :
        /\ c[1] < c[2]
        /\ instructions[c[1]].targetFilePath = instructions[c[2]].targetFilePath
        /\ instructions[c[1]].fieldSelector = instructions[c[2]].fieldSelector
        /\ instructions[c[1]].newValue # instructions[c[2]].newValue}

conflictError(instruction) ==
    [ConfigurationError("conflicting mutation", instruction.targetFilePath)
        EXCEPT !.names = {instruction.fieldSelector}]

\* the distinct paths, in lexicographic order
sortedPaths(instructions) ==
    CHOOSE o \in Orders({instructions[i].targetFilePath : i \in 1..Len(instructions)}) :
        \A i \in 1..(Len(o) - 1) : LexLess(o[i], o[i + 1])

\* the instructions of one file: by kind priority, stable on emission order
groupOf(instructions, path) ==
    Flatten([k \in 1..Len(Kinds) |->
        Filter(instructions,
               {x \in Range(instructions) : x.targetFilePath = path /\ x.kind = Kinds[k]})])

compositesOver(instructions, paths) ==
    [i \in 1..Len(paths) |->
        [targetFilePath |-> paths[i], instructions |-> groupOf(instructions, paths[i])]]

MergerInit ==
    \E n \in 0..MaxInstructions :
      \E instructions \in [1..n -> InstructionPool] :
        merger = [phase |-> "Idle", instructions |-> instructions,
                  composites |-> <<>>, error |-> NoError]

\* merge: fails on a conflict, otherwise one composite per file
Merge ==
    /\ merger.phase = "Idle"
    /\ \/ \E c \in conflictsOf(merger.instructions) :
            merger' = [merger EXCEPT
                !.phase = "Failed",
                !.error = conflictError(merger.instructions[c[1]])]
       \/ /\ conflictsOf(merger.instructions) = {}
          /\ merger' = [merger EXCEPT
                !.phase = "Merged",
                !.composites = compositesOver(merger.instructions,
                                              sortedPaths(merger.instructions))]
    /\ UNCHANGED <<plugin, strategy, updater, lock, notes>>

MergerNext == Merge

InitMerger ==
    MergerInit /\ plugin = PluginUnused /\ strategy = StrategyUnused
        /\ updater = UpdaterUnused
        /\ lock = LockUnused
        /\ notes = NotesUnused

SpecMerge == InitMerger /\ [][MergerNext]_vars

\* two instructions for one field of one file, with different values
Conflicting(a, b) ==
    /\ a.targetFilePath = b.targetFilePath
    /\ a.fieldSelector = b.fieldSelector
    /\ a.newValue # b.newValue

ConflictingPairs ==
    {c \in (1..Len(merger.instructions)) \X (1..Len(merger.instructions)) :
        Conflicting(merger.instructions[c[1]], merger.instructions[c[2]])}

\* C6: when two of the instructions handed to merge set one field of one
\* file to different values, merge fails with a ConfigurationError that
\* names the path and the selector of such a pair, and gives no composite.
C6_ConflictFailsMerge ==
    (merger.phase \in {"Merged", "Failed"} /\ ConflictingPairs # {})
    => /\ merger.phase = "Failed"
       /\ merger.error.type = "ConfigurationError"
       /\ merger.composites = <<>>
       /\ \E c \in ConflictingPairs :
             /\ merger.error.at = merger.instructions[c[1]].targetFilePath
             /\ merger.error.names = {merger.instructions[c[1]].fieldSelector}

\* merge has failed on a conflict between two instructions that another
\* instruction for the same file separates
C6_Witness ==
    /\ merger.phase = "Failed"
    /\ Len(merger.instructions) = 3
    /\ Conflicting(merger.instructions[1], merger.instructions[3])
    /\ ~Conflicting(merger.instructions[1], merger.instructions[2])
    /\ ~Conflicting(merger.instructions[2], merger.instructions[3])

(***************************************************************************)
(* The UvLock updater.  A uv.lock is kept as what parseWith gives: text    *)
(* that does not parse, a document without a package array, or the array   *)
(* of its package entries.                                                 *)
(***************************************************************************)
\* longest package array of a uv.lock handed to the updater
MaxLockEntries == 3

LockEntry(name, version, source) == [name |-> name, version |-> version, source |-> source]

LockEntryPool ==
    {LockEntry("core", "1.0.0", "editable"), LockEntry("core", "1.3.0", "editable"),
     LockEntry("cli", "1.2.3", "editable"), LockEntry("requests", "2.28.0", "registry")}

LockDoc(kind, entries) == [kind |-> kind, entries |-> entries]

\* the versionsMap handed to the constructor
LockVersionsMaps ==
    {<<>>, [n \in {"core"} |-> "1.3.0"],
     [n \in {"core", "cli"} |-> IF n = "core" THEN "1.3.0" ELSE "2.0.0"]}

\* the body of data.package.forEach, stopping at the first entry it updates
updateLockEntryFirstOnly(versionsMap, acc, pkg, index) ==
    IF pkg.name \in DOMAIN versionsMap /\ ~acc.modified
    THEN [acc EXCEPT
            !.content = replaceTomlValue(@, <<"package", IndexToString(index), "version">>,
                                         versionsMap[pkg.name]),
            !.modified = TRUE]
    ELSE acc

\* the body of data.package.forEach
updateLockEntry(versionsMap, acc, pkg, index) ==
    IF pkg.name \in DOMAIN versionsMap
    THEN [acc EXCEPT
            !.content = replaceTomlValue(@, <<"package", IndexToString(index), "version">>,
                                         versionsMap[pkg.name]),
            !.modified = TRUE]
    ELSE acc

\* data.package.forEach((pkg, index) => ...)
RECURSIVE updateLockEntries(_, _, _, _)
updateLockEntries(versionsMap, acc, packages, i) ==
    IF i > Len(packages) THEN acc
    ELSE updateLockEntries(versionsMap,
             updateLockEntry(versionsMap, acc, packages[i], i), packages, i + 1)

\* the end of updateContent, without the warning for a lock nothing matched in
lockResultSilent(acc) == [content |-> acc.content, warnings |-> acc.warnings]

\* the end of updateContent: a warning when nothing was modified
lockResult(acc) ==
    [content |-> acc.content,
     warnings |-> IF acc.modified THEN acc.warnings
                  ELSE acc.warnings \cup
                          {Warning("No workspace packages found in uv.lock to update", "")}]

\* UvLock.updateContent: the content returned and the warnings logged
lockUpdateContent(versionsMap, content) ==
    IF content.kind = "unparsable"
    THEN [content |-> content,
          warnings |-> {Warning("Invalid uv.lock file, cannot be parsed", "")}]
    ELSE IF content.kind # "packages"
    THEN [content |-> content, warnings |-> {Warning("No packages found in uv.lock", "")}]
    ELSE lockResult(updateLockEntries(versionsMap,
                        [content |-> content, modified |-> FALSE, warnings |-> {}],
                        content.entries, 1))

LockInit ==
    \E versionsMap \in LockVersionsMaps,
       kind \in {"unparsable", "noPackage", "notArray", "packages"},
       n \in 0..MaxLockEntries :
      \E entries \in [1..n -> LockEntryPool] :
        /\ kind = "packages" \/ n = 0
        /\ lock = [phase |-> "Ready", versionsMap |-> versionsMap,
                   before |-> LockDoc(kind, entries),
                   content |-> LockDoc(kind, entries),
                   warnings |-> {}, error |-> NoError]

UpdateLock ==
    /\ lock.phase = "Ready"
    /\ \E r \in {lockUpdateContent(lock.versionsMap, lock.content)} :
         lock' = [lock EXCEPT !.phase = "Updated", !.content = r.content,
                              !.warnings = r.warnings]
    /\ UNCHANGED <<plugin, strategy, updater, merger, notes>>

LockNext == UpdateLock

InitLock ==
    LockInit /\ plugin = PluginUnused /\ strategy = StrategyUnused
        /\ updater = UpdaterUnused /\ merger = MergerUnused
        /\ notes = NotesUnused

SpecLock == InitLock /\ [][LockNext]_vars

\* the entries of the lock as it was whose name is a key of the versionsMap
MatchingEntries ==
    {i \in 1..Len(lock.before.entries) :
        lock.before.entries[i].name \in DOMAIN lock.versionsMap}

SpecifierName(dep) == SubSeq(dep, 1, LeadingRun(dep, NameChars, 1))
SpecifierRest(dep) == SubSeq(dep, LeadingRun(dep, NameChars, 1) + 1, Len(dep))

\* exact pin, lower bound, caret, tilde
OperatorStyles == {"==", ">=", "^", "~"}

\* the style of a specifier: the operator of the four that comes first
\* after the name; a bare specifier and one with another operator count
\* as exact pins
StyleOf(rest) ==
    IF \A op \in OperatorStyles : ~Includes(rest, op) THEN "=="
    ELSE CHOOSE op \in OperatorStyles :
            /\ Includes(rest, op)
            /\ \A o \in OperatorStyles :
                  Includes(rest, o) => IndexOf(rest, op) <= IndexOf(rest, o)

\* the specifier with its version replaced and its style kept
PreservedRewrite(map, dep) ==
    IF SpecifierName(dep) \in DOMAIN map
    THEN SpecifierName(dep) \o StyleOf(SpecifierRest(dep)) \o map[SpecifierName(dep)]
    ELSE dep

\* the updater was given a versionsMap and has been applied
RewritingApplied == updater.options.versionsMap.defined /\ Len(updater.log) >= 1

\* C13: every specifier of the primary list and of the dependency groups
\* whose name is a key of the versionsMap is rewritten to the same name,
\* the operator style it had and the mapped version; every other one is
\* returned as it was.
C13_OperatorStylePreserved ==
    RewritingApplied =>
        /\ \A i \in 1..Len(updater.log[1].before.dependencies) :
              updater.log[1].after.dependencies[i] =
                 PreservedRewrite(updater.options.versionsMap.map,
                                  updater.log[1].before.dependencies[i])
        /\ \A g \in 1..Len(updater.log[1].before.groups) :
              \A i \in 1..Len(updater.log[1].before.groups[g].deps) :
                 updater.log[1].after.groups[g].deps[i] =
                    PreservedRewrite(updater.options.versionsMap.map,
                                     updater.log[1].before.groups[g].deps[i])

\* spec is name, one of the four operators, version
IsRewrittenTo(spec, name, version) ==
    \E op \in OperatorStyles : spec = name \o op \o version

\* every specifier of the list whose name is a key carries the new version
ListRewritten(map, before, after) ==
    \A i \in 1..Len(before) :
        SpecifierName(before[i]) \in DOMAIN map
        => IsRewrittenTo(after[i], SpecifierName(before[i]), map[SpecifierName(before[i])])

\* C14: every specifier whose name is a key of the versionsMap is
\* rewritten, in the primary dependency list, in every optional dependency
\* list and in every dependency group of the manifest.
C14_EverySectionRewritten ==
    RewritingApplied =>
        /\ ListRewritten(updater.options.versionsMap.map,
                         updater.log[1].before.dependencies,
                         updater.log[1].after.dependencies)
        /\ \A g \in 1..Len(updater.log[1].before.optional) :
              ListRewritten(updater.options.versionsMap.map,
                            updater.log[1].before.optional[g].deps,
                            updater.log[1].after.optional[g].deps)
        /\ \A g \in 1..Len(updater.log[1].before.groups) :
              ListRewritten(updater.options.versionsMap.map,
                            updater.log[1].before.groups[g].deps,
                            updater.log[1].after.groups[g].deps)

\* the manifest the updater was applied to names a key of the versionsMap
OwnNameInMap ==
    /\ updater.log[1].before.name.t = "str"
    /\ updater.log[1].before.name.s \in DOMAIN updater.options.versionsMap.map

\* the manifest lists a dependency on a key of the versionsMap
DependsOnKey ==
    \E dep \in Range(updater.log[1].before.dependencies)
               \cup UNION {Range(updater.log[1].before.optional[g].deps) :
                              g \in 1..Len(updater.log[1].before.optional)}
               \cup UNION {Range(updater.log[1].before.groups[g].deps) :
                              g \in 1..Len(updater.log[1].before.groups)} :
        SpecifierName(dep) \in DOMAIN updater.options.versionsMap.map

\* C15: the updater sets the version of the manifest exactly when the
\* versionsMap has the manifest's own name, and then to the mapped version;
\* a manifest that is not in the map and depends on no key is not touched.
C15_OwnVersionOnlyWhenInMap ==
    RewritingApplied =>
        /\ OwnNameInMap =>
              updater.log[1].after.version =
                 Str(updater.options.versionsMap.map[updater.log[1].before.name.s])
        /\ ~OwnNameInMap => updater.log[1].after.version = updater.log[1].before.version
        /\ (~OwnNameInMap /\ ~DependsOnKey) =>
              /\ updater.log[1].after = updater.log[1].before
              /\ updater.log[1].calls = <<>>

(***************************************************************************)
(* The changelog notes of the plugin: getChangelogDepsNotes and            *)
(* compareDepLists, applied to a manifest before and after an update.      *)
(***************************************************************************)
MaxNoteDeps == 2

\* the specifiers of the manifests compared
NotesSpecifierPool == {"core>=1.0.0", "core>=1.3.0", "cli==1.2.3", "requests>=2.28"}

\* updatedVersions
NotesVersionsMaps ==
    {VersionsMapOver({"core"}, NewVersion).map,
     VersionsMapOver({"core", "cli"}, NewVersion).map}

\* `\n    * ${packageName} bumped to ${newVersion}`
depNote(packageName, newVersion) ==
    "\n    * " \o packageName \o " bumped to " \o newVersion

\* originalDeps.find(dep => extractPackageName(dep) === packageName):
\* the index of the first such dependency, 0 for undefined
findOriginalDep(originalDeps, packageName) ==
    IF \E i \in 1..Len(originalDeps) : extractPackageName(originalDeps[i]) = packageName
    THEN CHOOSE i \in 1..Len(originalDeps) :
            /\ extractPackageName(originalDeps[i]) = packageName
            /\ \A j \in 1..(i - 1) : extractPackageName(originalDeps[j]) # packageName
    ELSE 0

\* the body of the loop of compareDepLists for one updatedDep
depUpdate(originalDeps, updatedDep, updatedVersions, packageName, found) ==
    IF packageName \notin DOMAIN updatedVersions THEN <<>>
    ELSE IF found = 0 THEN <<>>
    ELSE IF originalDeps[found] = updatedDep THEN <<>>
    ELSE <<depNote(packageName, updatedVersions[packageName])>>

compareDepLists(originalDeps, updatedDeps, updatedVersions) ==
    Flatten([i \in 1..Len(updatedDeps) |->
                depUpdate(originalDeps, updatedDeps[i], updatedVersions,
                          extractPackageName(updatedDeps[i]),
                          findOriginalDep(originalDeps,
                                          extractPackageName(updatedDeps[i])))])

\* a Set filled by add() in the order of depUpdates
RECURSIVE asSet(_, _)
asSet(acc, depUpdates) ==
    IF depUpdates = <<>> THEN acc
    ELSE asSet(IF Head(depUpdates) \in Range(acc) THEN acc
               ELSE Append(acc, Head(depUpdates)),
               Tail(depUpdates))

\* updates.set(key, ...) when depUpdates.length > 0
setUpdates(updates, key, depUpdates) ==
    IF Len(depUpdates) > 0
    THEN Append(updates, [section |-> key, notes |-> asSet(<<>>, depUpdates)])
    ELSE updates

\* originalManifest[...][group] || []
groupDepsOr(groups, group) ==
    IF \E g \in Range(groups) : g.group = group
    THEN (CHOOSE g \in Range(groups) : g.group = group).deps
    ELSE <<>>

\* for (const group in updated...) over the groups of one table
RECURSIVE compareGroups(_, _, _, _, _, _)
compareGroups(updates, prefix, originalGroups, updatedGroups, updatedVersions, g) ==
    IF g > Len(updatedGroups) THEN updates
    ELSE compareGroups(
             setUpdates(updates, prefix \o updatedGroups[g].group,
                        compareDepLists(groupDepsOr(originalGroups, updatedGroups[g].group),
                                        updatedGroups[g].deps, updatedVersions)),
             prefix, originalGroups, updatedGroups, updatedVersions, g + 1)

\* the three checks of getChangelogDepsNotes
notesOfDependencies(originalManifest, updatedManifest, updatedVersions, updates) ==
    IF "dependencies" \in originalManifest.sections
       /\ "dependencies" \in updatedManifest.sections
    THEN setUpdates(updates, "dependencies",
                    compareDepLists(originalManifest.dependencies,
                                    updatedManifest.dependencies, updatedVersions))
    ELSE updates

notesOfOptional(originalManifest, updatedManifest, updatedVersions, updates) ==
    IF "optional-dependencies" \in originalManifest.sections
       /\ "optional-dependencies" \in updatedManifest.sections
    THEN compareGroups(updates, "optional-dependencies.", originalManifest.optional,
                       updatedManifest.optional, updatedVersions, 1)
    ELSE updates

notesOfGroups(originalManifest, updatedManifest, updatedVersions, updates) ==
    IF "dependency-groups" \in originalManifest.sections
       /\ "dependency-groups" \in updatedManifest.sections
    THEN compareGroups(updates, "dependency-groups.", originalManifest.groups,
                       updatedManifest.groups, updatedVersions, 1)
    ELSE updates

\* the strings of a sequence, concatenated
RECURSIVE ConcatAll(_)
ConcatAll(strings) ==
    IF strings = <<>> THEN "" ELSE Head(strings) \o ConcatAll(Tail(strings))

\* `\n  * ${section}` followed by the notes of the section, for each section
RECURSIVE noteLines(_)
noteLines(updates) ==
    IF updates = <<>> THEN ""
    ELSE "\n  * " \o Head(updates).section \o
         ConcatAll(Head(updates).notes) \o noteLines(Tail(updates))

depsNotesText(depUpdateNotes) ==
    IF depUpdateNotes # ""
    THEN "* The following workspace dependencies were updated" \o depUpdateNotes
    ELSE ""

depsNotesUpdates(originalManifest, updatedManifest, updatedVersions) ==
    notesOfGroups(originalManifest, updatedManifest, updatedVersions,
        notesOfOptional(originalManifest, updatedManifest, updatedVersions,
            notesOfDependencies(originalManifest, updatedManifest, updatedVersions, <<>>)))

\* getChangelogDepsNotes: the string returned
getChangelogDepsNotes(originalManifest, updatedManifest, updatedVersions) ==
    depsNotesText(noteLines(depsNotesUpdates(originalManifest, updatedManifest,
                                             updatedVersions)))

\* the updater that produced the updated manifest: version only, or the one
\* that also rewrites the dependencies on the packages of updatedVersions
NotesUpdaterOptions(aware, updatedVersions) ==
    [version |-> NewVersion,
     versionsMap |-> IF aware THEN [defined |-> TRUE, map |-> updatedVersions]
                     ELSE NoVersionsMap]

NotesInit ==
    \E aware \in BOOLEAN, updatedVersions \in NotesVersionsMaps,
       n \in 0..MaxNoteDeps, k \in 0..MaxNoteDeps, extras \in BOOLEAN, grouped \in BOOLEAN :
      \E dependencies \in [1..n -> NotesSpecifierPool],
         groupDeps \in [1..k -> NotesSpecifierPool] :
        \E originalManifest \in {UpdaterContent(Str("app"), Str("1.0.0"), dependencies,
                                                extras, grouped, groupDeps)} :
          /\ grouped \/ k = 0
          /\ notes = [phase |-> "Ready",
                      originalManifest |-> originalManifest,
                      updatedManifest |->
                          updateContent(NotesUpdaterOptions(aware, updatedVersions),
                                        originalManifest).content,
                      updatedVersions |-> updatedVersions,
                      updates |-> <<>>, dependencyNotes |-> ""]

\* getChangelogDepsNotes(originalManifest, updatedManifest, updatedVersions)
GetChangelogDepsNotes ==
    /\ notes.phase = "Ready"
    /\ notes' = [notes EXCEPT
                   !.phase = "Done",
                   !.updates = depsNotesUpdates(notes.originalManifest,
                                   notes.updatedManifest, notes.updatedVersions),
                   !.dependencyNotes = getChangelogDepsNotes(notes.originalManifest,
                                   notes.updatedManifest, notes.updatedVersions)]
    /\ UNCHANGED <<plugin, strategy, updater, merger, lock>>

NotesNext == GetChangelogDepsNotes

InitNotes ==
    NotesInit /\ plugin = PluginUnused /\ strategy = StrategyUnused
        /\ updater = UpdaterUnused /\ merger = MergerUnused /\ lock = LockUnused

SpecNotes == InitNotes /\ [][NotesNext]_vars

\* the sections of a manifest that list dependencies, by the key the notes
\* are grouped under, and the list of each
SectionKeys(manifest) ==
    (IF "dependencies" \in manifest.sections THEN {"dependencies"} ELSE {})
        \cup {"optional-dependencies." \o g.group : g \in Range(manifest.optional)}
        \cup {"dependency-groups." \o g.group : g \in Range(manifest.groups)}

SectionDeps(manifest, key) ==
    IF key = "dependencies" THEN manifest.dependencies
    ELSE IF \E g \in Range(manifest.optional) : key = "optional-dependencies." \o g.group
    THEN (CHOOSE g \in Range(manifest.optional) :
             key = "optional-dependencies." \o g.group).deps
    ELSE (CHOOSE g \in Range(manifest.groups) :
             key = "dependency-groups." \o g.group).deps

\* the notes produced under a section
NotesUnder(key) ==
    UNION {Range(u.notes) : u \in {v \in Range(notes.updates) : v.section = key}}

\* a specifier of the section that names packageName differs after the update
SpecifierChanged(key, packageName) ==
    \E i \in 1..Len(SectionDeps(notes.originalManifest, key)) :
        /\ extractPackageName(SectionDeps(notes.originalManifest, key)[i]) = packageName
        /\ SectionDeps(notes.updatedManifest, key)[i]
              # SectionDeps(notes.originalManifest, key)[i]

\* the names the specifiers of a section start with
SectionNames(key) ==
    {extractPackageName(dep) : dep \in Range(SectionDeps(notes.originalManifest, key))}

\* C16: under every section of the manifest, the note "<dep> bumped to
\* <version>" is there exactly for the dependencies that are keys of
\* updatedVersions and whose specifier in that section differs after the
\* update, no other note is there, and the notes are not empty when some
\* specifier of the manifest was rewritten.
C16_NotesIffSpecifierChanged ==
    notes.phase = "Done" =>
        /\ \A key \in SectionKeys(notes.originalManifest) :
              /\ \A d \in SectionNames(key) \cap DOMAIN notes.updatedVersions :
                    depNote(d, notes.updatedVersions[d]) \in NotesUnder(key)
                       <=> SpecifierChanged(key, d)
              /\ \A note \in NotesUnder(key) :
                    \E d \in SectionNames(key) \cap DOMAIN notes.updatedVersions :
                       note = depNote(d, notes.updatedVersions[d])
        /\ (\E key \in SectionKeys(notes.originalManifest) :
               \E d \in SectionNames(key) : SpecifierChanged(key, d))
           => notes.dependencyNotes # ""

(***************************************************************************)
(* The candidates of the plugin: after the cascade every package of        *)
(* updatedVersions is visited once; a package with a release candidate has *)
(* the candidate updated, a package without one gets a new candidate; the  *)
(* candidates are then post-processed and handed back.                     *)
(***************************************************************************)
\* PyProjectToml.updateContent: the manifest with its version field set
pyProjectTomlUpdateContent(content, version) ==
    IF Truthy(content.version) THEN [content EXCEPT !.version = Str(version)]
    ELSE IF Truthy(content.poetryVersion)
    THEN [content EXCEPT !.poetryVersion = Str(version)]
    ELSE content

\* appendDependenciesSectionToChangelog: the notes appended to the entry
appendDependenciesSectionToChangelog(changelog, notesText) ==
    IF notesText = "" THEN changelog ELSE Append(changelog, notesText)

\* the callback of existingCandidate.pullRequest.updates.map
updateCandidateUpdate(update, candidatePath, updatedContent, dependencyNotes, updatedVersions) ==
    IF update.path = addPath(candidatePath, "pyproject.toml")
    THEN [update EXCEPT !.updater = "RawContent", !.content = <<updatedContent>>]
    ELSE IF update.updater = "Changelog" /\ dependencyNotes # ""
    THEN [update EXCEPT !.changelogEntry =
             appendDependenciesSectionToChangelog(@, dependencyNotes)]
    ELSE IF update.path = addPath(candidatePath, "uv.lock")
    THEN [update EXCEPT !.updater = "UvLock", !.versionsMap = updatedVersions]
    ELSE update

\* "append dependency notes" of updateCandidate
appendDependencyNotes(releaseData, pkg, dependencyNotes) ==
    IF dependencyNotes = "" THEN releaseData
    ELSE IF Len(releaseData) > 0
    THEN [releaseData EXCEPT ![1].notes =
             appendDependenciesSectionToChangelog(@, dependencyNotes)]
    ELSE Append(releaseData,
                [component |-> pkg.name,
                 notes |-> appendDependenciesSectionToChangelog(<<>>, dependencyNotes)])

\* what updateCandidate leaves in the pull request of existingCandidate
updatedPullRequest(pullRequest, candidatePath, pkg, updatedVersions, updatedContent, dependencyNotes) ==
    [updates |-> [i \in 1..Len(pullRequest.updates) |->
                     updateCandidateUpdate(pullRequest.updates[i], candidatePath,
                                           updatedContent, dependencyNotes,
                                           updatedVersions)],
     releaseData |-> appendDependencyNotes(pullRequest.releaseData, pkg, dependencyNotes)]

\* updateCandidate: the candidate is changed in place and returned
updateCandidate(pullRequest, candidatePath, pkg, updatedVersions) ==
    updatedPullRequest(pullRequest, candidatePath, pkg, updatedVersions,
        pyProjectTomlUpdateContent(pkg.manifest, updatedVersions[pkg.name]),
        getChangelogDepsNotes(pkg.manifest,
            pyProjectTomlUpdateContent(pkg.manifest, updatedVersions[pkg.name]),
            updatedVersions))

\* the pull request newCandidate builds when the strategy gives none
freshPullRequest(pkg, updatedContent, dependencyNotes) ==
    [updates |-> <<CandidateUpdate(addPath(pkg.path, "pyproject.toml"), "RawContent",
                                   <<updatedContent>>, <<>>, <<>>),
                   CandidateUpdate(addPath(pkg.path, "CHANGELOG.md"), "Changelog", <<>>,
                                   appendDependenciesSectionToChangelog(<<>>, dependencyNotes),
                                   <<>>)>>,
     releaseData |-> <<[component |-> pkg.name,
                        notes |-> appendDependenciesSectionToChangelog(<<>>,
                                      dependencyNotes)]>>]

\* what strategy.buildReleasePullRequest can do for a package that has no
\* candidate: there is no strategy for the path or it resolves to undefined,
\* it resolves to a pull request, it rejects
BaseOutcomes == {"undefined", "pullRequest", "rejects"}

\* newCandidate, for the outcomes that give a candidate
newCandidate(pkg, updatedVersions, outcome) ==
    IF outcome = "pullRequest"
    THEN updateCandidate(BasePullRequest(pkg.path), pkg.path, pkg, updatedVersions)
    ELSE freshPullRequest(pkg,
             pyProjectTomlUpdateContent(pkg.manifest, updatedVersions[pkg.name]),
             getChangelogDepsNotes(pkg.manifest,
                 pyProjectTomlUpdateContent(pkg.manifest, updatedVersions[pkg.name]),
                 updatedVersions))

\* the packages the loop has still to visit
Pending == (DOMAIN plugin.updatedVersions \cap DOMAIN plugin.graph) \ plugin.synthesized

\* pullRequests with the pull request at path set
withPullRequest(pullRequests, path, pullRequest) ==
    [p \in DOMAIN pullRequests \cup {path} |->
        IF p = path THEN pullRequest ELSE pullRequests[p]]

\* the visit of a package that has a release candidate
UpdateCandidate ==
    /\ plugin.phase \in {"ClosureComputed", "Synthesizing"}
    /\ \E name \in Pending \cap DOMAIN plugin.candidatesByPackage :
         \E path \in {plugin.candidatesByPackage[name]} :
           plugin' = [plugin EXCEPT
              !.phase = "Synthesizing",
              !.synthesized = @ \cup {name},
              !.pullRequests = withPullRequest(@, path,
                  updateCandidate(plugin.pullRequests[path], path,
                                  plugin.graph[name].value, plugin.updatedVersions)),
              !.newCandidates = Append(@, path)]
    /\ UNCHANGED <<strategy, updater, merger, lock, notes>>

\* the visit of a package that has none
NewCandidate ==
    /\ plugin.phase \in {"ClosureComputed", "Synthesizing"}
    /\ \E name \in Pending \ DOMAIN plugin.candidatesByPackage, outcome \in BaseOutcomes :
         \E pkg \in {plugin.graph[name].value} :
           IF outcome = "rejects"
           THEN plugin' = [plugin EXCEPT !.phase = "Failed",
                                         !.error = TransportError(pkg.path)]
           ELSE plugin' = [plugin EXCEPT
                   !.phase = "Synthesizing",
                   !.synthesized = @ \cup {name},
                   !.pullRequests = withPullRequest(@, pkg.path,
                       newCandidate(pkg, plugin.updatedVersions, outcome)),
                   !.newCandidates = Append(@, pkg.path)]
    /\ UNCHANGED <<strategy, updater, merger, lock, notes>>

\* the first candidate, whether or not there is a root candidate
rootCandidateFirst(candidates) ==
    IF Len(candidates) > 0 THEN <<candidates[1]>> ELSE <<>>

\* candidates.find(c => c.path === ROOT_PROJECT_PATH), else the first python
\* candidate, else none (the empty sequence)
rootCandidate(candidates) ==
    IF ROOT_PROJECT_PATH \in Range(candidates) THEN <<ROOT_PROJECT_PATH>>
    ELSE IF Len(candidates) > 0 THEN <<candidates[1]>>
    ELSE <<>>

postProcessWarnings(candidates) ==
    (IF ROOT_PROJECT_PATH \in Range(candidates) THEN {}
     ELSE {Warning("Unable to find root candidate pull request", "")})
    \cup (IF Len(candidates) > 0 THEN {}
          ELSE {Warning("Unable to find a python candidate pull request", "")})

\* postProcessCandidates: the update of uv.lock pushed on the root candidate
postProcessCandidates(pullRequests, root, updatedVersions) ==
    IF root = <<>> THEN pullRequests
    ELSE [pullRequests EXCEPT ![root[1]].updates =
             Append(@, CandidateUpdate("uv.lock", "UvLock", <<>>, <<>>, updatedVersions))]

\* the end of the run: the candidates are post-processed and returned
PostProcessCandidates ==
    /\ plugin.phase \in {"ClosureComputed", "Synthesizing"}
    /\ Pending = {}
    /\ plugin' = [plugin EXCEPT
          !.phase = "Done",
          !.pullRequests = postProcessCandidates(@, rootCandidate(plugin.newCandidates),
                                                 plugin.updatedVersions),
          !.warnings = @ \cup postProcessWarnings(plugin.newCandidates),
          !.result = plugin.newCandidates]
    /\ UNCHANGED <<strategy, updater, merger, lock, notes>>

Next ==
    \/ BuildAllPackages
    \/ BuildGraph
    \/ ClosurePass
    \/ UpdateCandidate
    \/ NewCandidate
    \/ PostProcessCandidates

Init ==
    PluginInit /\ strategy = StrategyUnused /\ updater = UpdaterUnused /\ merger = MergerUnused
        /\ lock = LockUnused
        /\ notes = NotesUnused

Spec == Init /\ [][Next]_vars

\* the place of a phase in the order of a run
PhaseRank(phase) ==
    CASE phase = "Idle" -> 0
      [] phase = "Discovered" -> 1
      [] phase = "GraphBuilt" -> 2
      [] phase = "ClosureComputed" -> 3
      [] phase = "Synthesizing" -> 4
      [] phase = "Done" -> 5
      [] OTHER -> 6

\* the release candidates given to the run are as they were given
CandidatesUntouched ==
    \A path \in plugin.candidates : plugin.pullRequests[path] = BasePullRequest(path)

\* C17: the phases of a run only move forward, a failed run stays failed
\* with its error and is never done, and a failed run hands nothing back:
\* it returns no candidate and leaves the candidates it was given as they
\* were.
C17_ForwardAndNothingOnFailure ==
    /\ [][/\ PhaseRank(plugin'.phase) >= PhaseRank(plugin.phase)
          /\ plugin.phase = "Failed" => plugin'.phase = "Failed"]_vars
    /\ [](plugin.phase = "Failed" =>
             /\ plugin.error.type # "none"
             /\ plugin.result = <<>>
             /\ CandidatesUntouched)

(***************************************************************************)
(* Further properties of the strategy.                                     *)
(***************************************************************************)
\* the paths of the updates the run returned
UpdatePaths == {strategy.updates[i].path : i \in 1..Len(strategy.updates)}

\* the member pattern packages/* was listed and matched no manifest, and
\* the manifest of the other declared member can be read
EmptyPatternMet(env) ==
    /\ WorkspaceFound(env)
    /\ env.root.glob = "ok"
    /\ Len(env.listed) = 0
    /\ env.cli.read = "ok"

\* C18: when the member pattern matches no manifest, the run reports a
\* warning, does not fail, returns no update under the pattern and returns
\* the update of the manifest of the other member.
C18_EmptyPatternWarns ==
    (StrategyRan /\ EmptyPatternMet(strategy.env)) =>
        /\ strategy.phase = "Done"
        /\ strategy.error.type = "none"
        /\ strategy.warnings # {}
        /\ \A path \in UpdatePaths : ~StartsWith(path, "packages/")
        /\ "apps/cli/pyproject.toml" \in UpdatePaths

\* the names of the packages of the workspace: the root and the members
WorkspacePackageNames(inst) ==
    {inst.memberManifests[i].manifest.name.s :
        i \in namedEntries(inst.memberManifests)}
    \cup (IF inst.workspaceManifest.state = "loaded"
             /\ Truthy(inst.workspaceManifest.doc.name)
          THEN {inst.workspaceManifest.doc.name.s} ELSE {})

\* the manifest lists, in its primary list or in a dependency group, a
\* package of the workspace other than itself
DependsOnWorkspacePackage(inst, manifest) ==
    \E dep \in Range(declaredDeps(manifest)) :
        /\ extractPackageName(dep) \in WorkspacePackageNames(inst)
        /\ ~(manifest.name.t = "str" /\ manifest.name.s = extractPackageName(dep))

\* the updater classes of the updates returned for a path
UpdatersAt(path) ==
    {strategy.updates[i].updater :
        i \in {j \in 1..Len(strategy.updates) : strategy.updates[j].path = path}}

\* C19: in a run that returns the updates of a workspace, the manifest of
\* a member that depends on another package of the workspace is updated by
\* UvWorkspaceToml and not by PyProjectToml, and the manifest of every
\* other member by PyProjectToml.
C19_WorkspaceAwareUpdaterChosen ==
    (strategy.phase = "Done" /\ WorkspaceFound(strategy.env)) =>
        \A i \in 1..Len(strategy.inst.memberManifests) :
            UpdatersAt(strategy.inst.memberManifests[i].path \o "/pyproject.toml") =
                IF DependsOnWorkspacePackage(strategy.inst,
                                             strategy.inst.memberManifests[i].manifest)
                THEN {"UvWorkspaceToml"} ELSE {"PyProjectToml"}

\* the manifests of the declared members that can be read
ReadableMemberDocs(env) ==
    {FileAt(env, p \o "/pyproject.toml").doc :
        p \in {q \in DeclaredMemberPaths(env) :
                  FileAt(env, q \o "/pyproject.toml").read = "ok"}}

\* the names of the root package and of the members, as the repository has them
RepositoryPackageNames(env) ==
    {doc.name.s : doc \in {d \in ReadableMemberDocs(env) \cup {env.root.doc} :
                              Truthy(d.name)}}

\* the versionsMap that gives every package of the repository the new version
SynchronizedMap(env) == [n \in RepositoryPackageNames(env) |-> NewVersion]

\* the updates whose updater takes a versionsMap
MapCarryingUpdates ==
    {i \in 1..Len(strategy.updates) :
        strategy.updates[i].updater \in {"UvWorkspaceToml", "UvLock"}}

NoMemberList(env) == env.root.read = "ok" /\ ~env.root.workspace

\* C21: when the root manifest has no workspace member list, buildUpdates
\* fails with the error that no UV workspace configuration was found and
\* returns no update; no member manifest has been parsed.
C21_MissingWorkspaceConfigurationFails ==
    (StrategyRan /\ NoMemberList(strategy.env)) =>
        /\ strategy.phase = "Failed"
        /\ strategy.error.what = "No UV workspace configuration found"
        /\ strategy.updates = <<>>
        /\ strategy.inst.memberManifests = <<>>

\* C22: every edge of the dependency graph the strategy builds ends at a
\* package that is a node of that graph.
C22_EdgesEndAtNodes ==
    \A n \in DOMAIN strategy.inst.dependencyGraph :
        strategy.inst.dependencyGraph[n] \subseteq DOMAIN strategy.inst.dependencyGraph

(***************************************************************************)
(* Further properties of the graph and of the cascade of the plugin.       *)
(***************************************************************************)
\* C23: in the graph the plugin builds no package has an edge to itself,
\* and no package has two edges to the same package.
C23_NoSelfEdgesNoDuplicateEdges ==
    \A n \in DOMAIN plugin.graph :
        /\ n \notin Range(plugin.graph[n].deps)
        /\ \A i, j \in 1..Len(plugin.graph[n].deps) :
              i # j => plugin.graph[n].deps[i] # plugin.graph[n].deps[j]

\* a depends on b through at most k edges
RECURSIVE DependsWithin(_, _, _, _)
DependsWithin(graph, a, b, k) ==
    /\ k > 0
    /\ \E d \in Range(graph[a].deps) : d = b \/ DependsWithin(graph, d, b, k - 1)

\* no package depends on itself, directly or through others
Acyclic(graph) ==
    \A n \in DOMAIN graph : ~DependsWithin(graph, n, n, Cardinality(DOMAIN graph))

IsVersionCall(call) == call.path = <<"project", "version">>

\* the list a dependency call writes into, and the index it writes at
ListOfCall(call) == SubSeq(call.path, 1, Len(call.path) - 1)
IndexOfCall(call) == NatOf(call.path[Len(call.path)])

\* C25: among the writes of one application of the updater to a manifest,
\* the write of the version comes before every write of a dependency
\* specifier, and the specifiers of one list are written in the order of
\* the list.
C25_VersionBeforeDependencies ==
    \A k \in 1..Len(updater.log) :
        \A i, j \in 1..Len(updater.log[k].calls) :
            /\ (IsVersionCall(updater.log[k].calls[i])
                /\ ~IsVersionCall(updater.log[k].calls[j])) => i < j
            /\ (/\ i < j
                /\ ~IsVersionCall(updater.log[k].calls[i])
                /\ ~IsVersionCall(updater.log[k].calls[j])
                /\ ListOfCall(updater.log[k].calls[i]) = ListOfCall(updater.log[k].calls[j]))
               => IndexOfCall(updater.log[k].calls[i]) < IndexOfCall(updater.log[k].calls[j])

\* one application wrote the version and two specifiers of one list
C25_Witness ==
    /\ Len(updater.log) >= 1
    /\ \E i, j, v \in 1..Len(updater.log[1].calls) :
          /\ IsVersionCall(updater.log[1].calls[v])
          /\ i # j
          /\ ~IsVersionCall(updater.log[1].calls[i])
          /\ ~IsVersionCall(updater.log[1].calls[j])
          /\ ListOfCall(updater.log[1].calls[i]) = ListOfCall(updater.log[1].calls[j])

(***************************************************************************)
(* The list of updates a run of the strategy returns.                      *)
(***************************************************************************)
\* C26: the updates a run returns name every path once, and they are in
\* the lexicographic order of their paths.
C26_OneUpdatePerPathInPathOrder ==
    strategy.phase = "Done" =>
        \A i, j \in 1..Len(strategy.updates) :
            i < j => LexLess(strategy.updates[i].path, strategy.updates[j].path)

\* C27: in one run of buildUpdates no package name is set in the
\* versionsMap more than once.
C27_VersionMapWrittenOnce ==
    \A i, j \in 1..Len(strategy.sets) : i # j => strategy.sets[i] # strategy.sets[j]

(***************************************************************************)
(* Several runs of buildUpdates on one instance of the strategy.  The      *)
(* fields workspaceManifest, memberManifests and dependencyGraph belong to *)
(* the instance; the repository may change between two runs.               *)
(***************************************************************************)
MaxRuns == 2

RunsRootPool ==
    {[read |-> "ok", workspace |-> TRUE, glob |-> "ok", doc |-> RootDoc],
     [read |-> "ok", workspace |-> FALSE, glob |-> "ok", doc |-> CoreDoc],
     [read |-> "throws", workspace |-> FALSE, glob |-> "ok", doc |-> NamelessDoc]}

RunsMemberPool == {Read(CoreDoc), Read(UtilDoc), Missing}

\* the repositories a run may find
RunsEnvs ==
    {[root |-> root, cli |-> cli, listed |-> listed] :
        root \in RunsRootPool, cli \in {Read(CliDoc), Missing},
        listed \in UNION {[1..n -> RunsMemberPool] : n \in 0..MaxMembers}}

RunsInit ==
    \E impl \in Impls, env \in RunsEnvs :
        strategy = [impl |-> impl,
                    env |-> env,
                    order |-> <<>>,
                    runs |-> 0,
                    inst |-> FreshInstance,
                    phase |-> "Idle",
                    updates |-> <<>>,
                    sets |-> <<>>,
                    error |-> NoError,
                    warnings |-> {}]

\* buildUpdates called on the instance as the runs before left it
RunBuildUpdates ==
    /\ strategy.phase = "Idle"
    /\ \E order \in ListingOrders(strategy.env) :
         \E r \in {buildUpdates(strategy.impl, strategy.env, order, strategy.inst)} :
             strategy' = [strategy EXCEPT
                !.phase = IF r.error.type = "none" THEN "Done" ELSE "Failed",
                !.order = order,
                !.runs = @ + 1,
                !.inst = r.inst,
                !.updates = r.updates,
                !.sets = r.sets,
                !.error = r.error,
                !.warnings = r.warnings]
    /\ UNCHANGED <<plugin, updater, merger, lock, notes>>

\* the repository changes before the instance is asked again
RepositoryChanges ==
    /\ strategy.phase \in {"Done", "Failed"}
    /\ strategy.runs < MaxRuns
    /\ \E env \in RunsEnvs \ {strategy.env} :
         strategy' = [strategy EXCEPT !.phase = "Idle", !.env = env]
    /\ UNCHANGED <<plugin, updater, merger, lock, notes>>

RunsNext == RunBuildUpdates \/ RepositoryChanges

InitRuns ==
    RunsInit /\ plugin = PluginUnused /\ updater = UpdaterUnused /\ merger = MergerUnused
        /\ lock = LockUnused
        /\ notes = NotesUnused

SpecRuns == InitRuns /\ [][RunsNext]_vars

\* what a run returns or throws
RunResult(r) == [updates |-> r.updates, error |-> r.error]

\* C28: whatever runs came before on the instance, a run returns what a
\* fresh instance returns for the same repository and listing order.
C28_RunEqualsFreshRun ==
    strategy.phase \in {"Done", "Failed"} =>
        RunResult(strategy) =
            RunResult(buildUpdates(strategy.impl, strategy.env, strategy.order, FreshInstance))

(***************************************************************************)
(* Package discovery: manifests without a package name.                    *)
(***************************************************************************)
ManifestPathOf(member) == addPath(member.path, "pyproject.toml")

\* a readable manifest with neither project.name nor tool.poetry.name
Nameless(member) ==
    /\ member.entry.read = "ok"
    /\ ~Truthy(OrElse(member.entry.doc.name, member.entry.doc.poetryName))

\* a manifest at which discovery stops: unreadable, or named with a bad version
AbortsDiscovery(member) ==
    \/ member.entry.read = "throws"
    \/ /\ ~Nameless(member)
       /\ ~Truthy(OrElse(member.entry.doc.version, member.entry.doc.poetryVersion))
    \/ /\ ~Nameless(member)
       /\ OrElse(member.entry.doc.version, member.entry.doc.poetryVersion).t # "str"

\* the root manifest is read, is a workspace, and its members can be listed
Expandable(repo) ==
    repo.root.read = "ok" /\ repo.root.workspace /\ repo.root.glob = "ok"

\* the nameless manifest i is passed over, and the members after it are examined
SkippedAndContinued(members, i) ==
    /\ Warning("missing name", ManifestPathOf(members[i])) \in plugin.warnings
    /\ \A k \in 1..Len(plugin.allPackages) : plugin.allPackages[k].path # members[i].path
    /\ ~(plugin.error.type = "ConfigurationError"
         /\ plugin.error.at = ManifestPathOf(members[i]))
    /\ \A j \in (i + 1)..Len(members) :
          /\ (AbortsDiscovery(members[j])
              /\ \A k \in 1..(j - 1) : ~AbortsDiscovery(members[k]))
             => /\ plugin.phase = "Failed"
                /\ plugin.error.at = ManifestPathOf(members[j])
          /\ (~Nameless(members[j]) /\ \A k \in 1..Len(members) : ~AbortsDiscovery(members[k]))
             => \E k \in 1..Len(plugin.allPackages) :
                   plugin.allPackages[k].path = members[j].path

\* C29: a manifest without a package name is skipped with a warning before
\* its version is looked at: it gives no package and no ConfigurationError,
\* and the manifests after it are still examined.
C29_NamelessSkippedBeforeVersionCheck ==
    (plugin.phase # "Idle" /\ Expandable(plugin.repo)) =>
        \A i \in 1..Len(MembersOf(plugin.repo)) :
            (/\ Nameless(MembersOf(plugin.repo)[i])
             /\ \A k \in 1..(i - 1) : ~AbortsDiscovery(MembersOf(plugin.repo)[k]))
            => SkippedAndContinued(MembersOf(plugin.repo), i)

\* a member without name and version was passed over and the member after it found
C29_Witness ==
    /\ plugin.phase = "Discovered"
    /\ Len(plugin.repo.members) = 2
    /\ plugin.repo.members[1] = Read(NamelessDoc)
    /\ ~Truthy(plugin.repo.members[1].doc.version)
    /\ Warning("missing name", "packages/p1/pyproject.toml") \in plugin.warnings
    /\ \E k \in 1..Len(plugin.allPackages) : plugin.allPackages[k].path = "packages/p2"

(***************************************************************************)
(* The lock-file update of postProcessCandidates.                          *)
(***************************************************************************)
\* the candidate that is to carry uv.lock: the root, else the first one
LockCarrier(candidates) ==
    IF \E k \in 1..Len(candidates) : candidates[k] = ROOT_PROJECT_PATH
    THEN ROOT_PROJECT_PATH
    ELSE candidates[1]

\* the pull request after is the one before with one update of uv.lock,
\* carrying versions, at the end
OneLockUpdateAdded(before, after, versions) ==
    /\ after.releaseData = before.releaseData
    /\ Len(after.updates) = Len(before.updates) + 1
    /\ SubSeq(after.updates, 1, Len(before.updates)) = before.updates
    /\ after.updates[Len(after.updates)].path = "uv.lock"
    /\ after.updates[Len(after.updates)].updater = "UvLock"
    /\ after.updates[Len(after.updates)].versionsMap = versions

\* what the step that ends the run does to the candidates
LockFileAttached ==
    /\ plugin'.result = plugin.newCandidates
    /\ plugin'.newCandidates = plugin.newCandidates
    /\ DOMAIN plugin'.pullRequests = DOMAIN plugin.pullRequests
    /\ IF plugin.newCandidates = <<>>
       THEN /\ plugin'.pullRequests = plugin.pullRequests
            /\ Warning("Unable to find a python candidate pull request", "")
                   \in plugin'.warnings
       ELSE /\ OneLockUpdateAdded(plugin.pullRequests[LockCarrier(plugin.newCandidates)],
                                  plugin'.pullRequests[LockCarrier(plugin.newCandidates)],
                                  plugin.updatedVersions)
            /\ \A path \in DOMAIN plugin.pullRequests \ {LockCarrier(plugin.newCandidates)} :
                   plugin'.pullRequests[path] = plugin.pullRequests[path]

\* C30: postProcessCandidates adds one update of uv.lock, carrying the whole
\* version map, to the root candidate, or to the first candidate when there
\* is no root candidate, and changes no other candidate; without candidates
\* it changes nothing and warns; the candidates returned are the candidates
\* given, in their order.
C30_LockFileAttachedToOneCandidate ==
    [][(plugin.phase # "Done" /\ plugin'.phase = "Done") => LockFileAttached]_vars

\* a finished run without root candidate: the first of two candidates
\* carries uv.lock with the version map, the second does not
C30_Witness ==
    /\ plugin.phase = "Done"
    /\ Len(plugin.result) = 2
    /\ \A k \in 1..2 : plugin.result[k] # ROOT_PROJECT_PATH
    /\ \E u \in Range(plugin.pullRequests[plugin.result[1]].updates) :
          u.path = "uv.lock" /\ u.versionsMap = plugin.updatedVersions
    /\ \A u \in Range(plugin.pullRequests[plugin.result[2]].updates) : u.path # "uv.lock"

====
